---- MODULE Spec2Model ----
(***************************************************************************)
(* Leveled DAG (internal/dag) and the PLONK constraint solver              *)
(* (SparseR1CS.Solve / parallelSolve) of nume-crypto/gnark.                *)
(*                                                                         *)
(* SpecLevels : a DAG is built with AddNode/AddEdges, then DAG.Levels()    *)
(*              (the variant with a worker pool) runs with NumCPU workers. *)
(* SpecSolve  : SparseR1CS.Solve on a compiled system and a witness.       *)
(***************************************************************************)
EXTENDS Integers, Sequences, FiniteSets, TLC

\* ------------------------------------------------------------------ bounds
\* nbNodes given to New: the capacity of the parents/children/visited arrays
MaxNodes == 3
\* longest parents slice given to AddEdges
MaxParents == 2
\* most calls of MarkEntryNode on one DAG
MaxMarks == 2

\* the partition of a level is looked at for 1 .. PartitionCPUs CPUs and for
\* levels of MinWorkPerCPU + 1 .. PartitionLen constraints
PartitionCPUs == 4

PartitionLen == 160

\* on a graph with a cycle the round loop of Levels() is followed for
\* RoundCap rounds
RoundCap == 3

\* the systems given to buildPermutation have 1 .. MaxWires variables and
\* 0 .. MaxConstraints constraints
MaxWires == 3

MaxConstraints == 1

\* Domain[0] has up to MaxPadding elements more than the system needs
MaxPadding == 1
\* values runtime.NumCPU() takes
CPUCounts == {1, 2}

Nodes == 0 .. (MaxNodes - 1)

VARIABLES
    \* ---- DAG (dag.go:15-21)
    parents,      \* dag.parents  : node -> sequence of parents
    children,     \* dag.children : node -> sequence of children
    visited,      \* dag.visited  : node -> last round that inspected it
    nbNodes,      \* dag.nbNodes  : number of nodes added
    buf,          \* the caller's parents slice, handed to AddEdges
    shared,       \* nodes whose stored in-edges share the array of buf
    nodes,        \* dag.Nodes (entry-node variant): the Node of each index
    entryNodes,   \* dag.entryNodes (entry-node variant): the marked indexes
    returned,     \* the levels the caller got from Levels() before it calls it again
    \* ---- DAG.Levels() locals shared with its workers (dag.go:80-120)
    numCPU,       \* runtime.NumCPU()
    current, next, solved, levels, level,
    chTasks,      \* buffered channel of tasks, capacity numCPU
    chClosed,     \* close(chTasks) happened
    wg,           \* sync.WaitGroup counter
    pc,           \* position of the goroutine that called Levels()
    di,           \* loop index i of the dispatch loop (dag.go:193)
    workers,      \* worker goroutines: position, task, loop index, local slices
    \* ---- SparseR1CS.Solve (dag_test.go:242-305)
    debug,        \* the build: TRUE debug, FALSE release
    cs,           \* the compiled system: sizes, constraints, levels, hints
    witness,      \* the witness given to Solve
    force,        \* opt.Force: the prover option given to Solve
    solution,     \* solution.values, solution.solved, solution.nbSolved
    result,       \* what Solve returned: status, CID of the error, value vector
    \* ---- parallelSolve (dag_test.go:307-420)
    psPc,         \* position of the goroutine that called Solve
    psLevel,      \* index in cs.Levels of the level being solved
    psI,          \* index in the level of the inline loop / of the dispatch loop
    psTasks,      \* chTasks: buffered channel of slices of the level
    psError,      \* chError: buffered channel of errors
    psClosed,     \* the deferred close(chTasks); close(chError) ran
    psWg,         \* wg counter
    psWorkers,    \* pool goroutines: position, task, index in the task
    \* ---- history, read by the properties only
    failed,       \* constraints whose solveConstraint or checkConstraint failed
    begun,        \* levels in which solveConstraint was called
    checkFailed,  \* constraints whose checkConstraint failed
    \* ---- plonk Setup (setup.go:85-195)
    spr,          \* the system given to Setup: sizes and the wires of its constraints
    pk            \* the proving key: Domain[0].Cardinality and Permutation

dagVars == <<parents, children, visited, nbNodes, buf, shared, nodes, entryNodes, returned>>
lvlVars == <<numCPU, current, next, solved, levels, level, chTasks, chClosed,
             wg, pc, di, workers>>
setupVars == <<spr, pk>>
solveState == <<debug, cs, witness, force, solution, result, psPc, psLevel, psI,
                psTasks, psError, psClosed, psWg, psWorkers, failed, begun, checkFailed>>
solveVars == <<solveState, setupVars>>

\* ------------------------------------------------------------- helpers
Max(S) == CHOOSE x \in S : \A y \in S : y <= x

Range(s) == {s[j] : j \in DOMAIN s}

\* all sequences over S of length lo..hi
SeqsOf(S, lo, hi) == UNION {[1 .. len -> S] : len \in lo .. hi}

\* sort.Ints: the ascending arrangement of s (duplicates kept)
RECURSIVE Insert(_, _)
Insert(s, x) ==
    IF s = <<>> THEN <<x>>
    ELSE IF x <= Head(s) THEN <<x>> \o s
    ELSE <<Head(s)>> \o Insert(Tail(s), x)

RECURSIVE SortInts(_)
SortInts(s) == IF s = <<>> THEN <<>> ELSE Insert(SortInts(Tail(s)), Head(s))

\* ------------------------------------------------------------------ DAG
idleWorker == [pc |-> "off", r |-> <<>>, level |-> 0, i |-> 1, n |-> 0,
               localLevel |-> <<>>, localNext |-> <<>>]

\* dag := New(MaxNodes)
InitDAG ==
    /\ parents = [n \in Nodes |-> <<>>]
    /\ children = [n \in Nodes |-> <<>>]
    /\ visited = [n \in Nodes |-> 0]
    /\ nbNodes = 0
    /\ buf = <<>>
    /\ shared = {}
    /\ nodes = <<>>
    /\ entryNodes = <<>>
    /\ returned = <<>>

\* Setup is not called
NoSetup ==
    /\ spr = <<>>
    /\ pk = <<>>

\* Solve is not called
NoSolve ==
    /\ debug = FALSE
    /\ cs = <<>>
    /\ witness = <<>>
    /\ force = FALSE
    /\ solution = <<>>
    /\ result = [status |-> "none", cid |-> -1, values |-> <<>>]
    /\ psPc = "off"
    /\ psLevel = 0
    /\ psI = 0
    /\ psTasks = <<>>
    /\ psError = <<>>
    /\ psClosed = FALSE
    /\ psWg = 0
    /\ psWorkers = <<>>
    /\ failed = {}
    /\ begun = {}
    /\ checkFailed = {}

InitLevels ==
    /\ InitDAG
    /\ NoSetup
    /\ numCPU \in CPUCounts
    /\ current = <<>>
    /\ next = <<>>
    /\ solved = [n \in Nodes |-> FALSE]
    /\ levels = <<>>
    /\ level = 0
    /\ chTasks = <<>>
    /\ chClosed = FALSE
    /\ wg = 0
    /\ pc = "build"
    /\ di = 0
    /\ workers = [w \in 1 .. numCPU |-> idleWorker]
    /\ NoSolve

\* n = dag.AddNode(node)
AddNode ==
    /\ pc = "build"
    /\ nbNodes < MaxNodes
    /\ nbNodes' = nbNodes + 1
    /\ UNCHANGED <<parents, children, visited, buf, shared, nodes, entryNodes, returned>>
    /\ UNCHANGED lvlVars
    /\ UNCHANGED solveVars

\* the in-edges stored for nodeID: a copy of the caller's slice
StoredParents(ps) == [j \in 1 .. Len(ps) |-> ps[j]]

\* for _, p := range parents { dag.children[p] = append(dag.children[p], nodeID) }
RECURSIVE AppendChild(_, _, _)
AppendChild(ch, ps, nodeID) ==
    IF ps = <<>> THEN ch
    ELSE AppendChild([ch EXCEPT ![Head(ps)] = Append(@, nodeID)], Tail(ps), nodeID)

\* mutant: dag.parents[nodeID] = parents, the caller's slice itself
StoresCallerSlice == TRUE

\* dag.parents[nodeID] is a slice of its own (make, then copy): it does not
\* share the array of the caller's slice
SharesBuffer == FALSE

\* a slice after ps was written over the start of its array
Overwritten(old, ps) ==
    [j \in 1 .. Len(old) |-> IF j <= Len(ps) THEN ps[j] ELSE old[j]]

\* the caller reuses its slice for the parents of the node it adds next:
\* parents = parents[:0]; parents = append(parents, ...)
CallerFill(ps) ==
    /\ pc = "build"
    /\ nbNodes < MaxNodes
    /\ buf' = ps
    /\ parents' = [n \in Nodes |->
                     IF n \in shared THEN Overwritten(parents[n], ps) ELSE parents[n]]
    /\ UNCHANGED <<children, visited, nbNodes, shared, nodes, entryNodes, returned>>
    /\ UNCHANGED lvlVars
    /\ UNCHANGED solveVars

\* dag.AddEdges(nodeID, ps). As the callers do, it is called for the node
\* just added, with parents among the nodes created before it (dag.go:49-51),
\* which keeps the graph acyclic.
AddEdges(nodeID, ps) ==
    /\ pc = "build"
    /\ nodeID = nbNodes - 1
    /\ parents[nodeID] = <<>>
    /\ parents' = [parents EXCEPT ![nodeID] = StoredParents(ps)]
    /\ children' = AppendChild(children, ps, nodeID)
    /\ shared' = IF SharesBuffer THEN shared \cup {nodeID} ELSE shared
    /\ UNCHANGED <<visited, nbNodes, buf, nodes, entryNodes, returned>>
    /\ UNCHANGED lvlVars
    /\ UNCHANGED solveVars


\* ------------------------------------------------- DAG.Levels(), workers
\* mutant: a node with a single parent is taken for an entry node
IsEntryOffByOne(p) == Len(p) <= 1

\* len(p) == 0: "no parents, that's an entry node"
IsEntry(p) == Len(p) = 0

\* the loop over dag.parents that finds the entry nodes, from index i on:
\* marks them solved, pushes their children to current and themselves to next
RECURSIVE EntryScan(_, _)
EntryScan(i, acc) ==
    IF i >= MaxNodes THEN acc
    ELSE IF IsEntry(parents[i])
         THEN EntryScan(i + 1, [solved  |-> [acc.solved EXCEPT ![i] = TRUE],
                                current |-> acc.current \o children[i],
                                next    |-> Append(acc.next, i)])
         ELSE EntryScan(i + 1, acc)

\* mutant: the tags of an earlier call are left in dag.visited
VisitedKept == visited

\* for i := 0; i < len(dag.visited); i++ { dag.visited[i] = 0 }
ClearedVisited == [n \in Nodes |-> 0]

\* Levels() up to the start of the round loop: entry nodes, level 0, the
\* reset of visited, the channel and the worker goroutines
LevelsOpen ==
    /\ LET e == EntryScan(0, [solved |-> [n \in Nodes |-> FALSE],
                              current |-> <<>>, next |-> <<>>])
       IN /\ solved' = e.solved
          /\ current' = e.current
          /\ next' = e.next
          /\ levels' = <<e.next>>
    /\ level' = 0
    /\ visited' = ClearedVisited
    /\ chTasks' = <<>>
    /\ chClosed' = FALSE
    /\ wg' = 0
    /\ workers' = [w \in 1 .. numCPU |-> [idleWorker EXCEPT !.pc = "idle"]]
    /\ pc' = "round"
    /\ UNCHANGED <<parents, children, nbNodes, buf, shared, nodes, entryNodes, numCPU, di>>
    /\ UNCHANGED solveVars

\* the first call of Levels(), on the graph as built
LevelsStart ==
    /\ pc = "build"
    /\ LevelsOpen
    /\ UNCHANGED returned

\* Levels() is called again on the same DAG; the caller keeps the levels the
\* call before returned
LevelsAgain ==
    /\ pc = "done"
    /\ LevelsOpen
    /\ returned' = levels

\* nbTasks and nbIterationsPerCpus for nbIterations candidates
NbTasks(nbIterations) ==
    IF nbIterations \div numCPU < 1 THEN nbIterations ELSE numCPU

NbIterationsPerCpus(nbIterations) ==
    IF nbIterations \div numCPU < 1 THEN 1 ELSE nbIterations \div numCPU

ExtraTasks(nbIterations) ==
    nbIterations - NbTasks(nbIterations) * NbIterationsPerCpus(nbIterations)

\* _start and _end of the i-th task: the first extraTasks tasks get one more
TaskStart(i, nbIterations) ==
    LET extra == ExtraTasks(nbIterations)
    IN i * NbIterationsPerCpus(nbIterations) + (IF i < extra THEN i ELSE extra)

TaskEnd(i, nbIterations) ==
    TaskStart(i, nbIterations) + NbIterationsPerCpus(nbIterations)
        + (IF i < ExtraTasks(nbIterations) THEN 1 ELSE 0)

\* top of the round loop: next = next[:0]; stop when current is empty,
\* otherwise open a new level
RoundBegin ==
    /\ pc = "round"
    /\ next' = <<>>
    /\ IF Len(current) = 0
       THEN /\ pc' = "finish"
            /\ UNCHANGED <<level, levels, di>>
       ELSE /\ level' = level + 1
            /\ levels' = Append(levels, <<>>)
            /\ di' = 0
            /\ pc' = "dispatch"
    /\ UNCHANGED dagVars
    /\ UNCHANGED <<numCPU, current, solved, chTasks, chClosed, wg, workers>>
    /\ UNCHANGED solveVars

\* one iteration of the dispatch loop: wg.Add(1); chTasks <- task{...}
Dispatch ==
    /\ pc = "dispatch"
    /\ di < NbTasks(Len(current))
    /\ Len(chTasks) < numCPU
    /\ wg' = wg + 1
    /\ chTasks' = Append(chTasks,
          [r |-> SubSeq(current, TaskStart(di, Len(current)) + 1,
                                 TaskEnd(di, Len(current))),
           level |-> level])
    /\ di' = di + 1
    /\ pc' = IF di + 1 < NbTasks(Len(current)) THEN "dispatch" ELSE "wait"
    /\ UNCHANGED dagVars
    /\ UNCHANGED <<numCPU, current, next, solved, levels, level, chClosed, workers>>
    /\ UNCHANGED solveVars

\* mutant: the round does not wait for its workers
WaitNotAwaited == TRUE

\* mutant: wg.Wait() never returns
WaitNeverReturns == FALSE

\* wg.Wait() returns when the counter is zero
WaitReturns == wg = 0

\* for _, n := range levels[level].Nodes { solved[n] = true }
MarkSolved(sol, lvl) == [n \in Nodes |-> sol[n] \/ n \in Range(lvl)]

\* wg.Wait(); mark the level solved; current, next = next, current
WaitRound ==
    /\ pc = "wait"
    /\ WaitReturns
    /\ solved' = MarkSolved(solved, levels[level + 1])
    /\ current' = next
    /\ next' = current
    /\ pc' = "round"
    /\ UNCHANGED dagVars
    /\ UNCHANGED <<numCPU, levels, level, chTasks, chClosed, wg, di, workers>>
    /\ UNCHANGED solveVars

\* mutant: the sort pass is left out
NoSort(lv) == lv

\* the sort pass: every level's node list sorted ascending
SortLevels(lv) == [k \in DOMAIN lv |-> SortInts(lv[k])]

\* close(chTasks); sort pass; sanity check (a panic in debug builds); return
LevelsFinish ==
    /\ pc = "finish"
    /\ chClosed' = TRUE
    /\ levels' = SortLevels(levels)
    /\ \E dbg \in BOOLEAN :
          pc' = IF dbg /\ (\E n \in Nodes : ~solved[n]) THEN "panic" ELSE "done"
    /\ UNCHANGED dagVars
    /\ UNCHANGED <<numCPU, current, next, solved, level, chTasks, wg, di, workers>>
    /\ UNCHANGED solveVars

\* mutant: the visited tag is never taken as "seen in this round"
NeverVisited(pv, lvl) == FALSE

\* pv == level: another candidate of this round already reached the node
AlreadyVisited(pv, lvl) == pv = lvl

\* mutant: only the first parent of n is looked at
UnsolvedFirstOnly(n, sol) ==
    parents[n] # <<>> /\ ~sol[parents[n][1]]

\* mutant: only the last parent of n is looked at
UnsolvedLastOnly(n, sol) ==
    parents[n] # <<>> /\ ~sol[parents[n][Len(parents[n])]]

\* some parent of n is not solved yet
Unsolved(n, sol) == \E j \in DOMAIN parents[n] : ~sol[parents[n][j]]

\* position of a worker after it handled candidate i of its task
Advance(wk) ==
    [wk EXCEPT !.i = wk.i + 1,
               !.pc = IF wk.i + 1 > Len(wk.r) THEN "merge" ELSE "loop"]

\* for t := range chTasks: receive a task, reset the local slices
WorkerTake(w) ==
    /\ workers[w].pc = "idle"
    /\ chTasks # <<>>
    /\ workers' = [workers EXCEPT ![w] =
          [pc |-> "loop", r |-> Head(chTasks).r, level |-> Head(chTasks).level,
           i |-> 1, n |-> 0, localLevel |-> <<>>, localNext |-> <<>>]]
    /\ chTasks' = Tail(chTasks)
    /\ UNCHANGED dagVars
    /\ UNCHANGED <<numCPU, current, next, solved, levels, level, chClosed, wg, pc, di>>
    /\ UNCHANGED solveVars

\* pv := atomic.SwapInt64(&dag.visited[n], level); if pv == level { continue }
WorkerSwap(w) ==
    /\ workers[w].pc = "loop"
    /\ LET wk == workers[w]
           n == wk.r[wk.i]
       IN /\ visited' = [visited EXCEPT ![n] = level]
          /\ workers' = [workers EXCEPT ![w] =
                IF AlreadyVisited(visited[n], level)
                THEN Advance(wk)
                ELSE [wk EXCEPT !.pc = "inspect", !.n = n]]
    /\ UNCHANGED <<parents, children, nbNodes, buf, shared, nodes, entryNodes, returned>>
    /\ UNCHANGED <<numCPU, current, next, solved, levels, level, chTasks, chClosed,
                   wg, pc, di>>
    /\ UNCHANGED solveVars

\* the parent check: retry n later, or put it in the level and push its children
WorkerInspect(w) ==
    /\ workers[w].pc = "inspect"
    /\ LET wk == workers[w]
           n == wk.n
       IN workers' = [workers EXCEPT ![w] =
             IF Unsolved(n, solved)
             THEN Advance([wk EXCEPT !.localNext = Append(@, n)])
             ELSE Advance([wk EXCEPT !.localLevel = Append(@, n),
                                     !.localNext = @ \o children[n]])]
    /\ UNCHANGED dagVars
    /\ UNCHANGED <<numCPU, current, next, solved, levels, level, chTasks, chClosed,
                   wg, pc, di>>
    /\ UNCHANGED solveVars

\* under the lock: merge localLevel into levels[t.level] and localNext into next
WorkerMerge(w) ==
    /\ workers[w].pc = "merge"
    /\ LET wk == workers[w]
       IN /\ levels' = [levels EXCEPT ![wk.level + 1] = @ \o wk.localLevel]
          /\ next' = next \o wk.localNext
          /\ workers' = [workers EXCEPT ![w].pc = "wgdone"]
    /\ UNCHANGED dagVars
    /\ UNCHANGED <<numCPU, current, solved, level, chTasks, chClosed, wg, pc, di>>
    /\ UNCHANGED solveVars

\* wg.Done()
WorkerDone(w) ==
    /\ workers[w].pc = "wgdone"
    /\ wg' = wg - 1
    /\ workers' = [workers EXCEPT ![w].pc = "idle"]
    /\ UNCHANGED dagVars
    /\ UNCHANGED <<numCPU, current, next, solved, levels, level, chTasks, chClosed,
                   pc, di>>
    /\ UNCHANGED solveVars

\* range chTasks ends: the channel is closed and empty
WorkerExit(w) ==
    /\ workers[w].pc = "idle"
    /\ chTasks = <<>>
    /\ chClosed
    /\ workers' = [workers EXCEPT ![w].pc = "exited"]
    /\ UNCHANGED dagVars
    /\ UNCHANGED <<numCPU, current, next, solved, levels, level, chTasks, chClosed,
                   wg, pc, di>>
    /\ UNCHANGED solveVars

vars == <<parents, children, visited, nbNodes, buf, shared, nodes, entryNodes, returned, numCPU, current, next, solved,
          levels, level, chTasks, chClosed, wg, pc, di, workers,
          debug, cs, witness, force, solution, result, psPc, psLevel, psI, psTasks,
          psError, psClosed, psWg, psWorkers, failed, begun, checkFailed, spr, pk>>

NextLevels ==
    \/ AddNode
    \/ \E ps \in SeqsOf(0 .. (nbNodes - 1), 1, MaxParents) : CallerFill(ps)
    \/ (buf # <<>> /\ Range(buf) \subseteq 0 .. (nbNodes - 2)) /\ AddEdges(nbNodes - 1, buf)
    \/ LevelsStart
    \/ RoundBegin
    \/ Dispatch
    \/ WaitRound
    \/ LevelsFinish
    \/ \E w \in 1 .. numCPU : WorkerTake(w)
    \/ \E w \in 1 .. numCPU : WorkerSwap(w)
    \/ \E w \in 1 .. numCPU : WorkerInspect(w)
    \/ \E w \in 1 .. numCPU : WorkerMerge(w)
    \/ \E w \in 1 .. numCPU : WorkerDone(w)
    \/ \E w \in 1 .. numCPU : WorkerExit(w)

SpecLevels == InitLevels /\ [][NextLevels]_vars

\* the parents handed to AddEdges when the caller does not keep to nodes
\* created before: it may also name the node itself and the node it creates
\* next (indexes below the size given to New), ascending
AnyParents ==
    {ps \in SeqsOf({n \in Nodes : n <= nbNodes}, 1, MaxParents) :
        \A j \in 1 .. (Len(ps) - 1) : ps[j] < ps[j + 1]}

\* top of the round loop, followed for RoundCap rounds
RoundBeginWithin ==
    /\ Len(current) = 0 \/ level < RoundCap
    /\ RoundBegin

NextCyclic ==
    \/ AddNode
    \/ \E ps \in AnyParents : nbNodes > 0 /\ AddEdges(nbNodes - 1, ps)
    \/ LevelsStart
    \/ RoundBeginWithin
    \/ Dispatch
    \/ WaitRound
    \/ LevelsFinish
    \/ \E w \in 1 .. numCPU : WorkerTake(w)
    \/ \E w \in 1 .. numCPU : WorkerSwap(w)
    \/ \E w \in 1 .. numCPU : WorkerInspect(w)
    \/ \E w \in 1 .. numCPU : WorkerMerge(w)
    \/ \E w \in 1 .. numCPU : WorkerDone(w)
    \/ \E w \in 1 .. numCPU : WorkerExit(w)

\* Levels() on a graph whose edges may close a cycle
SpecCyclic == InitLevels /\ [][NextCyclic]_vars

\* a DAG that is built, levelled, and levelled again
SpecRepeat == InitLevels /\ [][NextLevels \/ LevelsAgain]_vars

\* the steps of Levels() and of its worker goroutines
LevelsSteps ==
    \/ RoundBegin
    \/ Dispatch
    \/ WaitRound
    \/ LevelsFinish
    \/ \E w \in 1 .. numCPU : WorkerTake(w)
    \/ \E w \in 1 .. numCPU : WorkerSwap(w)
    \/ \E w \in 1 .. numCPU : WorkerInspect(w)
    \/ \E w \in 1 .. numCPU : WorkerMerge(w)
    \/ \E w \in 1 .. numCPU : WorkerDone(w)
    \/ \E w \in 1 .. numCPU : WorkerExit(w)

\* the Go scheduler runs a goroutine that can take a step; the caller is
\* free never to call Levels()
SpecLevelsLive == SpecLevels /\ WF_vars(LevelsSteps)


\* ------------------------------------------------------ field elements
\* fr.Element: the integers modulo the prime P
P == 5

Fr == 0 .. (P - 1)

FrAdd(a, b) == (a + b) % P
FrMul(a, b) == (a * b) % P
FrNeg(a) == (P - a) % P

\* Inverse: the inverse of 0 is 0
FrInv(a) == IF a = 0 THEN 0 ELSE CHOOSE b \in Fr : (a * b) % P = 1

\* z.Div(x, y) = x * y^(-1)
FrDiv(a, b) == FrMul(a, FrInv(b))

\* ------------------------------------------------- compiled SparseR1CS
\* cs.Coefficients, indexed by coeffID 0..3: zero, one, two, minus one
Coefficients == <<0, 1, 2, P - 1>>

Coeff(cid) == Coefficients[cid + 1]

\* the reserved index of the coefficient zero, compared with in computeHints
CoeffIdZero == 0

\* a term: coefficient index and wire index
Term(cid, wid) == [cid |-> cid, wid |-> wid]

\* a SparseR1C: qL.xL + qR.xR + qO.xO + qM0.qM1.xL.xR + qK = 0; M[0] is on the
\* wire of L and M[1] on the wire of R
SparseR1C(l, r, o, m0, m1, k) ==
    [L |-> l, R |-> r, O |-> o, M |-> <<Term(m0, l.wid), Term(m1, r.wid)>>, K |-> k]

\* the constraint 0 = 0 that pads a level
Filler == SparseR1C(Term(0, 0), Term(0, 0), Term(0, 0), 0, 0, 0)

\* cs.Constraints[i]: the constraints listed in cs.Special, Filler elsewhere
ConstraintAt(i) == IF i \in DOMAIN cs.Special THEN cs.Special[i] ELSE Filler

\* number of wires
NbVariables == cs.NbInternal + cs.NbSecret + cs.NbPublic

\* minWorkPerCPU: a level of at most this many constraints is solved inline
MinWorkPerCPU == 50

\* constraints that pad a pooled level beyond MinWorkPerCPU + 1
LevelPad == 0

\* ---- the systems given to Solve
\* wires of the systems: 0 is the public input, 1.. are internal
NoHints == [w \in {} |-> <<>>]

\* one constraint with the one unknown internal wire 1 in position L, R or O;
\* uc is the coefficient of the unknown, a and b those of the two other terms
FirstConstraints ==
    {SparseR1C(Term(a, 0), Term(b, 0), Term(uc, 1), m[1], m[2], k) :
        uc \in 0 .. 3, a \in {0, 1}, b \in {0, 3}, m \in {<<0, 0>>, <<1, 1>>, <<1, 0>>},
        k \in {0, 1}}
    \cup
    {SparseR1C(Term(uc, 1), Term(a, 0), Term(b, 0), m[1], m[2], k) :
        uc \in 0 .. 3, a \in {0, 1}, b \in {0, 3}, m \in {<<0, 0>>, <<1, 1>>, <<1, 0>>},
        k \in {0, 1}}
    \cup
    {SparseR1C(Term(a, 0), Term(uc, 1), Term(b, 0), m[1], m[2], k) :
        uc \in 0 .. 3, a \in {0, 1}, b \in {0, 3}, m \in {<<0, 0>>, <<1, 1>>, <<0, 1>>},
        k \in {0, 1}}

\* a second constraint, one level later, on wires 1 and 2
SecondConstraints ==
    { SparseR1C(Term(0, 1), Term(0, 1), Term(3, 2), 1, 1, 0),   \* x2 = x1 * x1
      SparseR1C(Term(1, 1), Term(1, 2), Term(0, 0), 0, 0, 1),   \* x1 + x2 + 1 = 0, R unknown
      SparseR1C(Term(1, 2), Term(1, 1), Term(0, 0), 0, 0, 1) }  \* x2 + x1 + 1 = 0, L unknown

\* two levels of one constraint each, solved inline
InlineSystems ==
    {[NbPublic |-> 1, NbSecret |-> 0, NbInternal |-> 2,
      Special |-> (0 :> c0 @@ 1 :> c1),
      Levels |-> <<<<0>>, <<1>>>>,
      MHints |-> NoHints] : c0 \in FirstConstraints, c1 \in SecondConstraints}

\* first constraints on the hinted wire x1: alone, before an unknown without
\* a hint, and after one
HintFirst ==
    { SparseR1C(Term(0, 1), Term(0, 0), Term(0, 0), 1, 1, 3),   \* x1 * w0 - 1 = 0
      SparseR1C(Term(1, 1), Term(0, 0), Term(3, 2), 0, 0, 0),   \* x1 - x2 = 0, O unknown
      SparseR1C(Term(1, 2), Term(1, 1), Term(0, 0), 0, 0, 0) }  \* x2 + x1 = 0, L unknown

\* a constraint of HintFirst with x1 given by a hint on input term t: the
\* inverse of its input ("inv"), a callback that fails ("fail"), one that
\* returns two elements ("two"); then x1 - x2 = 0
HintSystems ==
    {[NbPublic |-> 1, NbSecret |-> 0, NbInternal |-> 2,
      Special |-> (0 :> c0
                   @@ 1 :> SparseR1C(Term(1, 1), Term(0, 0), Term(3, 2), 0, 0, 0)),
      Levels |-> <<<<0>>, <<1>>>>,
      MHints |-> (1 :> [fn |-> f, inputs |-> <<t>>, outputs |-> <<1>>])] :
        c0 \in HintFirst, f \in {"inv", "fail", "two"}, t \in {Term(1, 0), Term(1, 2)}}

\* a level of MinWorkPerCPU + 1 + LevelPad constraints, ca first and cb last,
\* followed by a level of one constraint x3 = x1 + x2
PoolLevelSize == MinWorkPerCPU + 1 + LevelPad

PoolFirst ==
    { SparseR1C(Term(1, 0), Term(0, 0), Term(3, 1), 0, 0, 0),   \* x1 = w0
      SparseR1C(Term(1, 0), Term(1, 1), Term(0, 0), 0, 0, 1),   \* w0 + x1 + 1 = 0, R unknown
      SparseR1C(Term(1, 1), Term(1, 0), Term(0, 0), 1, 1, 1),   \* x1 + w0 + x1*w0 + 1 = 0, L unknown
      SparseR1C(Term(2, 0), Term(0, 0), Term(0, 0), 0, 0, 1) }  \* 2*w0 + 1 = 0

PoolLast ==
    { SparseR1C(Term(1, 0), Term(0, 0), Term(3, 2), 0, 0, 0),   \* x2 = w0
      SparseR1C(Term(1, 0), Term(0, 0), Term(0, 0), 0, 0, 3) }  \* w0 - 1 = 0

PoolSystems ==
    {[NbPublic |-> 1, NbSecret |-> 0, NbInternal |-> 3,
      Special |-> (0 :> ca @@ (PoolLevelSize - 1) :> cb
                   @@ PoolLevelSize :> SparseR1C(Term(1, 1), Term(1, 2), Term(3, 3), 0, 0, 0)),
      Levels |-> <<[j \in 1 .. PoolLevelSize |-> j - 1], <<PoolLevelSize>>>>,
      MHints |-> NoHints] : ca \in PoolFirst, cb \in PoolLast}

Systems == InlineSystems \cup HintSystems \cup PoolSystems

\* values of the public input
WitnessValues == {0, 1, 2}

\* witnesses of the expected size, one that is too short, one that is too long
Witnesses(sys) ==
    [1 .. (sys.NbPublic + sys.NbSecret) -> WitnessValues]
    \cup {<<>>, [j \in 1 .. (sys.NbPublic + sys.NbSecret + 1) |-> 0]}

\* ----------------------------------------------------- solution state
Wires == 0 .. (NbVariables - 1)

\* newSolution(nbVariables, ...): all values zero, nothing solved
NewSolution ==
    [values |-> [w \in Wires |-> 0], solved |-> [w \in Wires |-> FALSE], nbSolved |-> 0]

\* copy(solution.values, witness); solved[i] = true; nbSolved += len(witness)
CopyWitness(sol, wit) ==
    [values |-> [w \in Wires |-> IF w < Len(wit) THEN wit[w + 1] ELSE sol.values[w]],
     solved |-> [w \in Wires |-> w < Len(wit) \/ sol.solved[w]],
     nbSolved |-> sol.nbSolved + Len(wit)]

\* the assignment done by solution.set
Assign(sol, id, v) ==
    [values |-> [sol.values EXCEPT ![id] = v],
     solved |-> [sol.solved EXCEPT ![id] = TRUE],
     nbSolved |-> sol.nbSolved + 1]

\* solution.set(id, v). On a wire that is already solved: a panic in a debug
\* build; a release build does not look and carries out the assignment
Set(sol, id, v) ==
    IF sol.solved[id] /\ debug
    THEN [status |-> "panic", sol |-> sol]
    ELSE [status |-> "ok", sol |-> Assign(sol, id, v)]

\* solution.computeTerm(t) = Coefficients[t.coeffID] * values[t.wireID]
ComputeTerm(sol, t) == FrMul(Coeff(t.cid), sol.values[t.wid])

\* solution.isValid()
IsValid(sol) == sol.nbSolved = NbVariables

\* the hint callbacks: what they return for the input values ins
HintCallback(fn, ins) ==
    CASE fn = "inv"  -> [ok |-> TRUE, outs |-> <<FrInv(ins[1])>>]
      [] fn = "two"  -> [ok |-> TRUE, outs |-> <<FrInv(ins[1]), 0>>]
      [] fn = "fail" -> [ok |-> FALSE, outs |-> <<>>]

\* set of each output wire in turn, stopping at a panic; SetRest continues
\* after the outcome o of one set
RECURSIVE SetAll(_, _, _)
RECURSIVE SetRest(_, _, _)
SetAll(sol, outs, vals) ==
    IF outs = <<>> THEN [status |-> "ok", sol |-> sol]
    ELSE SetRest(Set(sol, Head(outs), Head(vals)), Tail(outs), Tail(vals))

SetRest(o, outs, vals) ==
    IF o.status # "ok" THEN o ELSE SetAll(o.sol, outs, vals)

\* the input values handed to the callback
HintInputs(sol, hint) ==
    [j \in DOMAIN hint.inputs |-> ComputeTerm(sol, hint.inputs[j])]

\* what solveWithHint does with the callback's result res
HintResult(sol, hint, res) ==
    IF ~res.ok THEN [status |-> "err", sol |-> sol]
    ELSE IF Len(res.outs) # Len(hint.outputs) THEN [status |-> "err", sol |-> sol]
    ELSE SetAll(sol, hint.outputs, res.outs)

\* solution.solveWithHint(wireID, hint)
SolveWithHint(sol, hint) ==
    IF \E j \in DOMAIN hint.inputs : ~sol.solved[hint.inputs[j].wid]
    THEN [status |-> "err", sol |-> sol]
    ELSE HintResult(sol, hint, HintCallback(hint.fn, HintInputs(sol, hint)))

\* ------------------------------------- computeHints, solveConstraint
\* mutant: the test of L looks at the coefficient of L alone
LOwnCoefficientOnly(c, sol) == c.L.cid # CoeffIdZero /\ ~sol.solved[c.L.wid]

\* the test that makes the wire of L, R, O a candidate unknown
LIsCandidate(c, sol) ==
    (c.L.cid # CoeffIdZero \/ c.M[1].cid # CoeffIdZero) /\ ~sol.solved[c.L.wid]

RIsCandidate(c, sol) ==
    (c.R.cid # CoeffIdZero \/ c.M[2].cid # CoeffIdZero) /\ ~sol.solved[c.R.wid]

OIsCandidate(c, sol) ==
    c.O.cid # CoeffIdZero /\ ~sol.solved[c.O.wid]

\* computeHints after solveWithHint returned o: an error is passed on
HintOutcome(h, o) ==
    IF o.status = "ok" THEN [h EXCEPT !.sol = o.sol]
    ELSE [status |-> o.status, r |-> -1, sol |-> o.sol]

\* one of the three blocks of computeHints, for the wire wid at position pos,
\* continuing from h = [status, r, sol]
HintBlock(h, candidate, wid, pos) ==
    IF h.status # "ok" \/ ~candidate THEN h
    ELSE IF wid \in DOMAIN cs.MHints
         THEN HintOutcome(h, SolveWithHint(h.sol, cs.MHints[wid]))
         ELSE [h EXCEPT !.r = pos]

LBlock(c, h) == HintBlock(h, LIsCandidate(c, h.sol), c.L.wid, 0)

\* mutant: the block of R reports position 0
RBlockReportsL(c, h) == HintBlock(h, RIsCandidate(c, h.sol), c.R.wid, 0)

RBlock(c, h) == HintBlock(h, RIsCandidate(c, h.sol), c.R.wid, 1)

OBlock(c, h) == HintBlock(h, OIsCandidate(c, h.sol), c.O.wid, 2)

\* cs.computeHints(c, solution): r is -1, or the position of the unknown
ComputeHints(c, sol) ==
    OBlock(c, RBlock(c, LBlock(c, [status |-> "ok", r |-> -1, sol |-> sol])))

\* the wire set by the branch lro == 1 (R is the unknown)
WireSetForR(c) == c.L.wid

\* mutant: the branch lro == 0 sets the wire of R
WireSetForLIsR(c) == c.R.wid

\* the wire set by the branch lro == 0 (L is the unknown)
WireSetForL(c) == c.L.wid

\* branch lro == 1 of solveConstraint
SolveForR(c, sol) ==
    IF ~sol.solved[c.L.wid] THEN [status |-> "panic", sol |-> sol]
    ELSE LET u3 == FrMul(Coeff(c.M[1].cid), Coeff(c.M[2].cid))
             u2 == Coeff(c.R.cid)
             den == FrAdd(FrMul(u3, sol.values[c.L.wid]), u2)
             v1 == ComputeTerm(sol, c.L)
             v2 == ComputeTerm(sol, c.O)
             num == FrAdd(FrAdd(v1, v2), Coeff(c.K))
         IN Set(sol, WireSetForR(c), FrNeg(FrDiv(num, den)))

\* branch lro == 0 of solveConstraint
SolveForL(c, sol) ==
    IF ~sol.solved[c.R.wid] THEN [status |-> "panic", sol |-> sol]
    ELSE LET u3 == FrMul(Coeff(c.M[1].cid), Coeff(c.M[2].cid))
             u1 == Coeff(c.L.cid)
             den == FrAdd(FrMul(u3, sol.values[c.R.wid]), u1)
             v1 == ComputeTerm(sol, c.R)
             v2 == ComputeTerm(sol, c.O)
             num == FrAdd(FrAdd(v1, v2), Coeff(c.K))
         IN Set(sol, WireSetForL(c), FrNeg(FrDiv(num, den)))

\* mutant: the inverses are not negated
CoefficientsInv(cid) == FrInv(Coeff(cid))

\* coefficientsNegInv[cid] = -(Coefficients[cid]^(-1)); BatchInvert leaves zero
CoefficientsNegInv(cid) == FrNeg(FrInv(Coeff(cid)))

\* the last branch of solveConstraint: O is the unknown
SolveForO(c, sol) ==
    LET l == ComputeTerm(sol, c.L)
        r == ComputeTerm(sol, c.R)
        m0 == ComputeTerm(sol, c.M[1])
        m1 == ComputeTerm(sol, c.M[2])
        o == FrAdd(FrAdd(FrAdd(FrMul(m0, m1), l), r), Coeff(c.K))
    IN Set(sol, c.O.wid, FrMul(o, CoefficientsNegInv(c.O.cid)))

\* solveConstraint after computeHints returned h
SolveBranch(c, h) ==
    IF h.status # "ok" THEN [status |-> h.status, sol |-> h.sol]
    ELSE IF h.r = -1 THEN [status |-> "ok", sol |-> h.sol]
    ELSE IF h.r = 1 THEN SolveForR(c, h.sol)
    ELSE IF h.r = 0 THEN SolveForL(c, h.sol)
    ELSE SolveForO(c, h.sol)

\* cs.solveConstraint(c, solution, coefficientsNegInv): [status, sol] with
\* status "ok", "err" (an error is returned) or "panic"
SolveConstraint(c, sol) == SolveBranch(c, ComputeHints(c, sol))

\* the left-hand side computed by checkConstraint
Residue(c, sol) ==
    LET l == ComputeTerm(sol, c.L)
        r == ComputeTerm(sol, c.R)
        m0 == ComputeTerm(sol, c.M[1])
        m1 == ComputeTerm(sol, c.M[2])
        o == ComputeTerm(sol, c.O)
    IN FrAdd(FrAdd(FrAdd(FrAdd(FrMul(m0, m1), l), r), o), Coeff(c.K))

\* cs.checkConstraint(c, solution) returns nil
CheckConstraint(c, sol) == Residue(c, sol) = 0

\* ------------------------------------------------ Solve, parallelSolve
\* Levels() is not called
NoLevels ==
    /\ InitDAG
    /\ current = <<>>
    /\ next = <<>>
    /\ solved = [n \in Nodes |-> FALSE]
    /\ levels = <<>>
    /\ level = 0
    /\ chTasks = <<>>
    /\ chClosed = FALSE
    /\ wg = 0
    /\ pc = "off"
    /\ di = 0
    /\ workers = <<>>

idlePool == [pc |-> "idle", lv |-> 0, start |-> 0, end |-> 0, i |-> 0, cid |-> -1]

\* a system, a witness, the build and the number of CPUs; Solve is about to run
InitSolve ==
    /\ NoLevels
    /\ NoSetup
    /\ numCPU \in CPUCounts
    /\ debug \in BOOLEAN
    /\ cs \in Systems
    /\ witness \in Witnesses(cs)
    /\ force \in BOOLEAN
    /\ solution = <<>>
    /\ result = [status |-> "none", cid |-> -1, values |-> <<>>]
    /\ psPc = "start"
    /\ psLevel = 0
    /\ psI = 0
    /\ psTasks = <<>>
    /\ psError = <<>>
    /\ psClosed = FALSE
    /\ psWg = 0
    /\ psWorkers = [w \in 1 .. numCPU |-> [idlePool EXCEPT !.pc = "off"]]
    /\ failed = {}
    /\ begun = {}
    /\ checkFailed = {}

levelsAll == <<parents, children, visited, nbNodes, buf, shared, nodes, entryNodes, returned, numCPU, current, next, solved,
               levels, level, chTasks, chClosed, wg, pc, di, workers, setupVars>>

\* what no step of Solve changes, but for the record of failed checks
solveFrame == <<levelsAll, force, checkFailed>>

\* nothing runs any more once a goroutine has panicked
Alive == result.status # "panic"

\* expectedWitnessSize
ExpectedWitnessSize == cs.NbPublic + cs.NbSecret

\* mutant: only a witness that is too long is refused
WitnessTooLong(n) == n > ExpectedWitnessSize

\* len(witness) != expectedWitnessSize
WitnessSizeWrong(n) == n # ExpectedWitnessSize

\* Solve up to the level loop of parallelSolve: the witness size is checked,
\* the solution is built and filled with the witness, the pool is started
SolveStart ==
    /\ psPc = "start"
    /\ IF WitnessSizeWrong(Len(witness))
       THEN /\ result' = [status |-> "wsize", cid |-> -1,
                          values |-> [w \in Wires |-> 0]]
            /\ psPc' = "returned"
            /\ UNCHANGED <<solution, psLevel, psWorkers>>
       ELSE /\ solution' = CopyWitness(NewSolution, witness)
            /\ psWorkers' = [w \in 1 .. numCPU |-> idlePool]
            /\ psLevel' = 1
            /\ psPc' = "level"
            /\ UNCHANGED result
    /\ UNCHANGED <<debug, cs, witness, psI, psTasks, psError, psClosed, psWg,
                   failed, begun>>
    /\ UNCHANGED solveFrame

\* the i-th level of cs.Levels and its j-th constraint index
LevelAt(i) == cs.Levels[i]

\* len(level) / minWorkPerCPU <= 1.0: the level is solved inline
IsInline(n) == n <= MinWorkPerCPU

\* top of the loop over cs.Levels, for a level that exists
LevelBegin ==
    /\ Alive
    /\ psPc = "level"
    /\ psLevel <= Len(cs.Levels)
    /\ IF IsInline(Len(LevelAt(psLevel)))
       THEN psPc' = "inline" /\ psI' = 1
       ELSE psPc' = "dispatch" /\ psI' = 0
    /\ UNCHANGED <<debug, cs, witness, solution, result, psLevel, psTasks, psError,
                   psClosed, psWg, psWorkers, failed, begun>>
    /\ UNCHANGED solveFrame

\* parallelSolve returns nil after the last level (the deferred closes run);
\* Solve checks isValid, panics if it fails, and returns the values
SolveDone ==
    /\ Alive
    /\ psPc = "level"
    /\ psLevel > Len(cs.Levels)
    /\ psClosed' = TRUE
    /\ IF IsValid(solution)
       THEN /\ result' = [status |-> "ok", cid |-> -1, values |-> solution.values]
            /\ psPc' = "returned"
       ELSE /\ result' = [status |-> "panic", cid |-> -1, values |-> <<>>]
            /\ psPc' = "panicked"
    /\ UNCHANGED <<debug, cs, witness, solution, psLevel, psI, psTasks, psError,
                   psWg, psWorkers, failed, begun>>
    /\ UNCHANGED solveFrame

\* mutant: the error names the constraint after the one that failed
ErrorCIDOffByOne(i) == i + 1

\* the CID of the error built for constraint i
ErrorCID(i) == i

\* mutant: the channels are not closed when an error is returned
ReturnErrorNoClose(e, sol) ==
    /\ result' = [status |-> "error", cid |-> e, values |-> sol.values]
    /\ UNCHANGED psClosed
    /\ psPc' = "returned"

\* parallelSolve returns the error e (the deferred closes run) and Solve
\* returns it with solution.values
ReturnError(e, sol) ==
    /\ result' = [status |-> "error", cid |-> e, values |-> sol.values]
    /\ psClosed' = TRUE
    /\ psPc' = "returned"

Panic ==
    /\ result' = [status |-> "panic", cid |-> -1, values |-> <<>>]
    /\ psPc' = "panicked"

\* inline level: solveConstraint on constraint i had the outcome o
InlineSolved(i, o) ==
    /\ solution' = o.sol
    /\ CASE o.status = "ok" ->
              /\ psPc' = "inlinecheck"
              /\ UNCHANGED <<result, psClosed, failed>>
         [] o.status = "err" ->
              /\ ReturnError(ErrorCID(i), o.sol)
              /\ failed' = failed \cup {i}
         [] o.status = "panic" ->
              /\ Panic
              /\ UNCHANGED <<psClosed, failed>>

\* inline level: solveConstraint on the psI-th constraint of the level
InlineSolve ==
    /\ Alive
    /\ psPc = "inline"
    /\ InlineSolved(LevelAt(psLevel)[psI],
                    SolveConstraint(ConstraintAt(LevelAt(psLevel)[psI]), solution))
    /\ begun' = begun \cup {psLevel}
    /\ UNCHANGED <<debug, cs, witness, psLevel, psI, psTasks, psError, psWg, psWorkers>>
    /\ UNCHANGED solveFrame

\* inline level: checkConstraint on the constraint just solved
InlineCheck ==
    /\ Alive
    /\ psPc = "inlinecheck"
    /\ LET i == LevelAt(psLevel)[psI]
       IN IF CheckConstraint(ConstraintAt(i), solution)
          THEN /\ IF psI < Len(LevelAt(psLevel))
                  THEN psI' = psI + 1 /\ psPc' = "inline" /\ UNCHANGED psLevel
                  ELSE psLevel' = psLevel + 1 /\ psPc' = "level" /\ UNCHANGED psI
               /\ UNCHANGED <<result, psClosed, failed>>
          ELSE /\ ReturnError(ErrorCID(i), solution)
               /\ failed' = failed \cup {i}
               /\ UNCHANGED <<psLevel, psI>>
    /\ UNCHANGED <<debug, cs, witness, solution, psTasks, psError, psWg, psWorkers, begun>>
    /\ checkFailed' = checkFailed \cup (failed' \ failed)
    /\ UNCHANGED <<levelsAll, force>>

\* nbTasks = min(NumCPU, ceil(len(level) / minWorkPerCPU)), brought down to
\* len(level) when that leaves less than one constraint per task
PoolNbTasks(n) ==
    LET maxTasks == (n + MinWorkPerCPU - 1) \div MinWorkPerCPU
        nbTasks == IF numCPU > maxTasks THEN maxTasks ELSE numCPU
    IN IF n \div nbTasks < 1 THEN n ELSE nbTasks

PoolPerCpu(n) ==
    LET maxTasks == (n + MinWorkPerCPU - 1) \div MinWorkPerCPU
        nbTasks == IF numCPU > maxTasks THEN maxTasks ELSE numCPU
    IN IF n \div nbTasks < 1 THEN 1 ELSE n \div nbTasks

PoolExtra(n) == n - PoolNbTasks(n) * PoolPerCpu(n)

PoolStart(i, n) == i * PoolPerCpu(n) + (IF i < PoolExtra(n) THEN i ELSE PoolExtra(n))

\* mutant: no task gets an extra constraint
PoolEndNoExtra(i, n) == PoolStart(i, n) + PoolPerCpu(n)

PoolEnd(i, n) == PoolStart(i, n) + PoolPerCpu(n) + (IF i < PoolExtra(n) THEN 1 ELSE 0)

\* one iteration of the dispatch loop: wg.Add(1); chTasks <- level[_start:_end]
PoolDispatch ==
    /\ Alive
    /\ psPc = "dispatch"
    /\ Len(psTasks) < numCPU
    /\ LET n == Len(LevelAt(psLevel))
       IN /\ psI < PoolNbTasks(n)
          /\ psTasks' = Append(psTasks, [lv |-> psLevel, start |-> PoolStart(psI, n),
                                         end |-> PoolEnd(psI, n)])
          /\ psPc' = IF psI + 1 < PoolNbTasks(n) THEN "dispatch" ELSE "wait"
    /\ psWg' = psWg + 1
    /\ psI' = psI + 1
    /\ UNCHANGED <<debug, cs, witness, solution, result, psLevel, psError, psClosed,
                   psWorkers, failed, begun>>
    /\ UNCHANGED solveFrame

\* mutant: a wait that returns at once
PoolWaitSkipped == TRUE

\* wg.Wait() in parallelSolve returns when the counter is zero
PoolWaitReturns == psWg = 0

\* len(chError) > 0
HasError(ch) == Len(ch) > 0

\* wg.Wait(); if an error is queued return the first one, else the next level
PoolWait ==
    /\ Alive
    /\ psPc = "wait"
    /\ PoolWaitReturns
    /\ IF HasError(psError)
       THEN /\ ReturnError(Head(psError), solution)
            /\ psError' = Tail(psError)
            /\ UNCHANGED psLevel
       ELSE /\ psLevel' = psLevel + 1
            /\ psPc' = "level"
            /\ UNCHANGED <<result, psClosed, psError>>
    /\ UNCHANGED <<debug, cs, witness, solution, psI, psTasks, psWg, psWorkers,
                   failed, begun>>
    /\ UNCHANGED solveFrame

\* for t := range chTasks: a pool goroutine receives a task
PoolTake(w) ==
    /\ Alive
    /\ psWorkers[w].pc = "idle"
    /\ psTasks # <<>>
    /\ LET t == Head(psTasks)
       IN psWorkers' = [psWorkers EXCEPT ![w] =
             [pc |-> "solve", lv |-> t.lv, start |-> t.start, end |-> t.end,
              i |-> t.start + 1, cid |-> -1]]
    /\ psTasks' = Tail(psTasks)
    /\ UNCHANGED <<debug, cs, witness, solution, result, psPc, psLevel, psI, psError,
                   psClosed, psWg, failed, begun>>
    /\ UNCHANGED solveFrame

\* the constraint index goroutine w is at in its task
TaskConstraint(w) == LevelAt(psWorkers[w].lv)[psWorkers[w].i]

\* goroutine w: solveConstraint on constraint i had the outcome o
PoolSolved(w, i, o) ==
    /\ solution' = o.sol
    /\ CASE o.status = "ok" ->
              /\ psWorkers' = [psWorkers EXCEPT ![w].pc = "check"]
              /\ UNCHANGED <<result, psPc, failed>>
         [] o.status = "err" ->
              /\ psWorkers' = [psWorkers EXCEPT ![w].pc = "senderr",
                                                ![w].cid = ErrorCID(i)]
              /\ failed' = failed \cup {i}
              /\ UNCHANGED <<result, psPc>>
         [] o.status = "panic" ->
              /\ Panic
              /\ UNCHANGED <<psWorkers, failed>>

\* a pool goroutine calls solveConstraint on the next constraint of its task
PoolSolve(w) ==
    /\ Alive
    /\ psWorkers[w].pc = "solve"
    /\ PoolSolved(w, TaskConstraint(w),
                  SolveConstraint(ConstraintAt(TaskConstraint(w)), solution))
    /\ begun' = begun \cup {psWorkers[w].lv}
    /\ UNCHANGED <<debug, cs, witness, psLevel, psI, psTasks, psError, psClosed, psWg>>
    /\ UNCHANGED solveFrame

\* a pool goroutine calls checkConstraint on the constraint it just solved
PoolCheck(w) ==
    /\ Alive
    /\ psWorkers[w].pc = "check"
    /\ LET wk == psWorkers[w]
           i == LevelAt(wk.lv)[wk.i]
       IN IF CheckConstraint(ConstraintAt(i), solution)
          THEN /\ psWorkers' = [psWorkers EXCEPT ![w] =
                     [wk EXCEPT !.i = wk.i + 1,
                                !.pc = IF wk.i + 1 > wk.end THEN "wgdone" ELSE "solve"]]
               /\ UNCHANGED failed
          ELSE /\ psWorkers' = [psWorkers EXCEPT ![w].pc = "senderr",
                                                 ![w].cid = ErrorCID(i)]
               /\ failed' = failed \cup {i}
    /\ UNCHANGED <<debug, cs, witness, solution, result, psPc, psLevel, psI, psTasks,
                   psError, psClosed, psWg, begun>>
    /\ checkFailed' = checkFailed \cup (failed' \ failed)
    /\ UNCHANGED <<levelsAll, force>>

\* chError <- &UnsatisfiedConstraintError{CID: i, ...}
PoolSendErr(w) ==
    /\ Alive
    /\ psWorkers[w].pc = "senderr"
    /\ Len(psError) < numCPU
    /\ psError' = Append(psError, psWorkers[w].cid)
    /\ psWorkers' = [psWorkers EXCEPT ![w].pc = "faildone"]
    /\ UNCHANGED <<debug, cs, witness, solution, result, psPc, psLevel, psI, psTasks,
                   psClosed, psWg, failed, begun>>
    /\ UNCHANGED solveFrame

\* mutant: the goroutine leaves the pool after an error without wg.Done()
PoolFailNoDone(w) ==
    /\ Alive
    /\ psWorkers[w].pc = "faildone"
    /\ psWorkers' = [psWorkers EXCEPT ![w].pc = "exited"]
    /\ UNCHANGED <<debug, cs, witness, solution, result, psPc, psLevel, psI, psTasks,
                   psError, psClosed, psWg, failed, begun>>
    /\ UNCHANGED solveFrame

\* mutant: after an error the goroutine goes back to wait for a task
PoolFailStays(w) ==
    /\ Alive
    /\ psWorkers[w].pc = "faildone"
    /\ psWg' = psWg - 1
    /\ psWorkers' = [psWorkers EXCEPT ![w].pc = "idle"]
    /\ UNCHANGED <<debug, cs, witness, solution, result, psPc, psLevel, psI, psTasks,
                   psError, psClosed, failed, begun>>
    /\ UNCHANGED solveFrame

\* wg.Done(); return  -- after an error the goroutine leaves the pool
PoolFailDone(w) ==
    /\ Alive
    /\ psWorkers[w].pc = "faildone"
    /\ psWg' = psWg - 1
    /\ psWorkers' = [psWorkers EXCEPT ![w].pc = "exited"]
    /\ UNCHANGED <<debug, cs, witness, solution, result, psPc, psLevel, psI, psTasks,
                   psError, psClosed, failed, begun>>
    /\ UNCHANGED solveFrame

\* wg.Done() at the end of a task
PoolDone(w) ==
    /\ Alive
    /\ psWorkers[w].pc = "wgdone"
    /\ psWg' = psWg - 1
    /\ psWorkers' = [psWorkers EXCEPT ![w].pc = "idle"]
    /\ UNCHANGED <<debug, cs, witness, solution, result, psPc, psLevel, psI, psTasks,
                   psError, psClosed, failed, begun>>
    /\ UNCHANGED solveFrame

\* range chTasks ends: the channel is closed and empty
PoolExit(w) ==
    /\ Alive
    /\ psWorkers[w].pc = "idle"
    /\ psTasks = <<>>
    /\ psClosed
    /\ psWorkers' = [psWorkers EXCEPT ![w].pc = "exited"]
    /\ UNCHANGED <<debug, cs, witness, solution, result, psPc, psLevel, psI, psTasks,
                   psError, psClosed, psWg, failed, begun>>
    /\ UNCHANGED solveFrame

NextSolve ==
    \/ SolveStart
    \/ LevelBegin
    \/ SolveDone
    \/ InlineSolve
    \/ InlineCheck
    \/ PoolDispatch
    \/ PoolWait
    \/ \E w \in 1 .. numCPU : PoolTake(w)
    \/ \E w \in 1 .. numCPU : PoolSolve(w)
    \/ \E w \in 1 .. numCPU : PoolCheck(w)
    \/ \E w \in 1 .. numCPU : PoolSendErr(w)
    \/ \E w \in 1 .. numCPU : PoolFailDone(w)
    \/ \E w \in 1 .. numCPU : PoolDone(w)
    \/ \E w \in 1 .. numCPU : PoolExit(w)

\* a system whose only level holds the constraints 0 .. n - 1
PartitionSystem(n) ==
    [NbPublic |-> 1, NbSecret |-> 0, NbInternal |-> 3,
     Special |-> <<>>,
     Levels |-> <<[j \in 1 .. n |-> j - 1]>>,
     MHints |-> NoHints]

\* parallelSolve is about to dispatch a level of more than MinWorkPerCPU
\* constraints: the pool is started and no task is sent yet
InitPartition ==
    /\ NoLevels
    /\ NoSetup
    /\ numCPU \in 1 .. PartitionCPUs
    /\ debug = FALSE
    /\ cs \in {PartitionSystem(n) : n \in (MinWorkPerCPU + 1) .. PartitionLen}
    /\ witness = <<0>>
    /\ force = FALSE
    /\ solution = CopyWitness(NewSolution, witness)
    /\ result = [status |-> "none", cid |-> -1, values |-> <<>>]
    /\ psPc = "dispatch"
    /\ psLevel = 1
    /\ psI = 0
    /\ psTasks = <<>>
    /\ psError = <<>>
    /\ psClosed = FALSE
    /\ psWg = 0
    /\ psWorkers = [w \in 1 .. numCPU |-> idlePool]
    /\ failed = {}
    /\ begun = {}
    /\ checkFailed = {}

\* the dispatch loop of one level, before any goroutine takes a task
SpecPartition == InitPartition /\ [][PoolDispatch]_vars

SpecSolve == InitSolve /\ [][NextSolve]_vars

\* ---------------------------------------------------------------------------
\* plonk Setup: the permutation of the wires (setup.go:197-255)
\* ---------------------------------------------------------------------------

\* a constraint, as far as the permutation goes: the wires of L, R and O
WireTriples(nbVariables) ==
    [L : 0 .. (nbVariables - 1), R : 0 .. (nbVariables - 1), O : 0 .. (nbVariables - 1)]

\* the systems of nbVariables variables: the variables are public, secret or
\* internal, and every constraint names existing wires
SparseSystems(nbVariables) ==
    UNION {{[NbPublicVariables |-> pub, NbSecretVariables |-> sec,
             NbInternalVariables |-> nbVariables - pub - sec, Constraints |-> c] :
                sec \in 0 .. (nbVariables - pub),
                c \in SeqsOf(WireTriples(nbVariables), 0, MaxConstraints)} :
           pub \in 0 .. nbVariables}

\* sizeSystem in Setup: the placeholder constraints and the constraints
SizeSystem(s) == Len(s.Constraints) + s.NbPublicVariables

\* the cardinalities Domain[0] can have: fft.NewDomain(sizeSystem) gives a
\* domain of at least sizeSystem elements, and of at least one
Cardinalities(s) ==
    {c \in SizeSystem(s) .. (SizeSystem(s) + MaxPadding) : c >= 1}

\* Setup has sized Domain[0] and is about to call buildPermutation
InitPermutation ==
    /\ NoLevels
    /\ NoSolve
    /\ numCPU = 1
    /\ spr \in UNION {SparseSystems(n) : n \in 1 .. MaxWires}
    /\ pk \in {[Cardinality |-> c, Permutation |-> <<>>] : c \in Cardinalities(spr)}

\* nbVariables in buildPermutation
PermNbVariables(s) == s.NbInternalVariables + s.NbPublicVariables + s.NbSecretVariables

\* a slice of n elements, all equal to v, indexed from 0
Filled(n, v) == [i \in 0 .. (n - 1) |-> v]

\* the wire the position i of lro holds: the placeholders first, then the
\* constraints, L in the first third, R in the second, O in the third; the
\* positions the loops leave alone keep the zero of make
LROAt(s, sizeSolution, i) ==
    LET offset == s.NbPublicVariables
        third == i \div sizeSolution
        k == (i % sizeSolution) - offset
    IN  IF i < s.NbPublicVariables THEN i
        ELSE IF k < 0 \/ k >= Len(s.Constraints) THEN 0
        ELSE IF third = 0 THEN s.Constraints[k + 1].L
        ELSE IF third = 1 THEN s.Constraints[k + 1].R
        ELSE s.Constraints[k + 1].O

\* lro, of 3*sizeSolution positions
LRO(s, sizeSolution) ==
    [i \in 0 .. (3 * sizeSolution - 1) |-> LROAt(s, sizeSolution, i)]

\* cycle[lro[i]] = int64(i), kept only for the first position of a wire
SeenFirstOnly(cycle, id, i) ==
    IF cycle[id] = -1 THEN [cycle EXCEPT ![id] = i] ELSE cycle

\* cycle[lro[i]] = int64(i)
Seen(cycle, id, i) == [cycle EXCEPT ![id] = i]

\* one pass of the first loop over lro: the position points to the position
\* that held its wire last, if there is one
Linked(perm, cycle, id, i) ==
    IF cycle[id] # -1 THEN [perm EXCEPT ![i] = cycle[id]] ELSE perm

\* the first loop over lro from position i on; gives the permutation and cycle
RECURSIVE LinkFrom(_, _, _, _)
LinkFrom(perm, cycle, lro, i) ==
    IF i \notin DOMAIN lro THEN [Permutation |-> perm, cycle |-> cycle]
    ELSE LinkFrom(Linked(perm, cycle, lro[i], i), Seen(cycle, lro[i], i), lro, i + 1)

\* the second loop: the positions still at -1 close the cycle of their wire
Closed(linked, lro) ==
    [i \in DOMAIN linked.Permutation |->
        IF linked.Permutation[i] = -1 THEN linked.cycle[lro[i]]
        ELSE linked.Permutation[i]]

\* pk.Permutation as buildPermutation leaves it
PermutationOf(s, sizeSolution) ==
    Closed(LinkFrom(Filled(3 * sizeSolution, -1), Filled(PermNbVariables(s), -1),
                    LRO(s, sizeSolution), 0),
           LRO(s, sizeSolution))

BuildPermutation ==
    /\ spr # <<>>
    /\ pk.Permutation = <<>>
    /\ pk' = [pk EXCEPT !.Permutation = PermutationOf(spr, pk.Cardinality)]
    /\ UNCHANGED <<spr, dagVars, lvlVars, solveState>>

SpecPermutation == InitPermutation /\ [][BuildPermutation]_vars

\* the Go scheduler runs a goroutine that can take a step
SpecSolveLive == SpecSolve /\ WF_vars(NextSolve)

\* ------------------------------------- DAG with marked entry nodes, Levels()
\* The variant of the package whose nodes are Node{CID, Weight, HasCustomHint}
\* and whose entry nodes are given by MarkEntryNode. Its Levels() runs on the
\* calling goroutine alone; HasCustomHint is not read by it. The fields and
\* locals it shares by name with the other variant are the same variables.

\* a constraint id different from the node's index
OtherCID(i) == (i + 1) % MaxNodes

\* the Node values given to AddNode for the node of index i
NodeChoices(i) ==
    {[CID |-> i, Weight |-> i + 1], [CID |-> OtherCID(i), Weight |-> i + 1]}

\* dag := New(MaxNodes), entry-node variant
InitEntry ==
    /\ InitDAG
    /\ NoSetup
    /\ numCPU = 1
    /\ current = <<>>
    /\ next = <<>>
    /\ solved = [n \in Nodes |-> FALSE]
    /\ levels = <<>>
    /\ level = 0
    /\ chTasks = <<>>
    /\ chClosed = FALSE
    /\ wg = 0
    /\ pc = "ebuild"
    /\ di = 0
    /\ workers = [w \in 1 .. numCPU |-> idleWorker]
    /\ NoSolve

\* n = dag.AddNode(node): dag.Nodes = append(dag.Nodes, node); dag.nbNodes++
AddNodeE(node) ==
    /\ pc = "ebuild"
    /\ nbNodes < MaxNodes
    /\ nodes' = Append(nodes, node)
    /\ nbNodes' = nbNodes + 1
    /\ UNCHANGED <<parents, children, visited, buf, shared, entryNodes, returned>>
    /\ UNCHANGED lvlVars
    /\ UNCHANGED solveVars

\* dag.AddEdges(nodeID, ps), called as for the other variant: once, for the
\* node just added, with parents among the nodes created before it
AddEdgesE(nodeID, ps) ==
    /\ pc = "ebuild"
    /\ nodeID = nbNodes - 1
    /\ parents[nodeID] = <<>>
    /\ parents' = [parents EXCEPT ![nodeID] = StoredParents(ps)]
    /\ children' = AppendChild(children, ps, nodeID)
    /\ UNCHANGED <<visited, nbNodes, buf, shared, nodes, entryNodes, returned>>
    /\ UNCHANGED lvlVars
    /\ UNCHANGED solveVars

\* dag.entryNodes = append(dag.entryNodes, nodeID)
Marked(en, nodeID) == Append(en, nodeID)

\* dag.MarkEntryNode(nodeID), for a node that was added
MarkEntryNode(nodeID) ==
    /\ pc = "ebuild"
    /\ Len(entryNodes) < MaxMarks
    /\ entryNodes' = Marked(entryNodes, nodeID)
    /\ UNCHANGED <<parents, children, visited, nbNodes, buf, shared, nodes, returned>>
    /\ UNCHANGED lvlVars
    /\ UNCHANGED solveVars

\* mutant: the node is put in front of the ones set before it
SetNodeInFront(lvl, n) == <<nodes[n + 1]>> \o lvl

\* levels[0].Nodes[i] = dag.Nodes[n], for the positions i in turn
SetNode(lvl, n) == Append(lvl, nodes[n + 1])

\* the loop over dag.entryNodes, from position i on: marks the node solved,
\* pushes its children to current and sets its place of level 0
RECURSIVE MarkedScan(_, _)
MarkedScan(i, acc) ==
    IF i > Len(entryNodes) THEN acc
    ELSE MarkedScan(i + 1,
                    [solved  |-> [acc.solved EXCEPT ![entryNodes[i]] = TRUE],
                     current |-> acc.current \o children[entryNodes[i]],
                     lvl     |-> SetNode(acc.lvl, entryNodes[i])])

\* Levels() up to the start of the round loop: level 0 from the marked nodes
\* (its TotalWeight is left at the zero value), the reset of visited
EntryLevelsStart ==
    /\ pc = "ebuild"
    /\ LET e == MarkedScan(1, [solved |-> [n \in Nodes |-> FALSE],
                               current |-> <<>>, lvl |-> <<>>])
       IN /\ solved' = e.solved
          /\ current' = e.current
          /\ levels' = <<[TotalWeight |-> 0, Nodes |-> e.lvl]>>
    /\ next' = <<>>
    /\ level' = 0
    /\ visited' = [n \in Nodes |-> 0]
    /\ pc' = "eround"
    /\ UNCHANGED <<parents, children, nbNodes, buf, shared, nodes, entryNodes, returned>>
    /\ UNCHANGED <<numCPU, chTasks, chClosed, wg, di, workers>>
    /\ UNCHANGED solveVars

\* for _, j := range dag.parents[n] { if !solved[j] { unsolved = true; break } }
AnyUnsolved(n, sol) == \E j \in DOMAIN parents[n] : ~sol[parents[n][j]]

\* the loop over current of one round, from position i on, for the level lv:
\* a node already visited in the round is skipped, a node with an unsolved
\* parent goes to next, any other node goes to the level with its children
\* pushed to next
RECURSIVE RoundScan(_, _, _)
RoundScan(i, lv, acc) ==
    IF i > Len(current) THEN acc
    ELSE LET n == current[i]
         IN IF acc.visited[n] = lv THEN RoundScan(i + 1, lv, acc)
            ELSE IF AnyUnsolved(n, solved)
                 THEN RoundScan(i + 1, lv,
                                [visited |-> [acc.visited EXCEPT ![n] = lv],
                                 next    |-> Append(acc.next, n),
                                 lvl     |-> acc.lvl])
                 ELSE RoundScan(i + 1, lv,
                                [visited |-> [acc.visited EXCEPT ![n] = lv],
                                 next    |-> acc.next \o children[n],
                                 lvl     |-> Append(acc.lvl, nodes[n + 1])])

\* for _, n := range levels[level].Nodes { solved[n.CID] = true }
MarkSolvedByCID(sol, lvl) ==
    [n \in Nodes |-> sol[n] \/ \E j \in DOMAIN lvl : lvl[j].CID = n]

\* tw := 0; for _, n := range levels[level].Nodes { tw += n.Weight }
RECURSIVE SumWeight(_)
SumWeight(lvl) == IF lvl = <<>> THEN 0 ELSE Head(lvl).Weight + SumWeight(Tail(lvl))

\* the round of Levels() applied to the scan r of current
RoundApply(r) ==
    /\ visited' = r.visited
    /\ levels' = Append(levels, [TotalWeight |-> SumWeight(r.lvl), Nodes |-> r.lvl])
    /\ solved' = MarkSolvedByCID(solved, r.lvl)
    /\ current' = r.next

\* one round of the loop of Levels(): level++, the scan of current, the level
\* marked solved and weighed, current and next swapped. The loop has no bound
\* of its own; the model follows it for MaxNodes + 1 rounds.
EntryRound ==
    /\ pc = "eround"
    /\ current # <<>>
    /\ level <= MaxNodes
    /\ level' = level + 1
    /\ RoundApply(RoundScan(1, level + 1, [visited |-> visited, next |-> <<>>, lvl |-> <<>>]))
    /\ next' = <<>>
    /\ UNCHANGED <<parents, children, nbNodes, buf, shared, nodes, entryNodes, returned>>
    /\ UNCHANGED <<numCPU, chTasks, chClosed, wg, pc, di, workers>>
    /\ UNCHANGED solveVars

\* len(current) == 0: break; the sanity check of the debug build panics when
\* an index below the capacity is not solved; Levels() returns
EntryFinish ==
    /\ pc = "eround"
    /\ current = <<>>
    /\ \E dbg \in BOOLEAN :
          pc' = IF dbg /\ (\E n \in Nodes : ~solved[n]) THEN "epanic" ELSE "edone"
    /\ UNCHANGED dagVars
    /\ UNCHANGED <<numCPU, current, next, solved, levels, level, chTasks, chClosed,
                   wg, di, workers>>
    /\ UNCHANGED solveVars

\* the parents slices given to AddEdges in this variant: nodes created before
\* the last one, in ascending order, each listed once
ParentLists ==
    {ps \in SeqsOf(0 .. (nbNodes - 2), 1, MaxParents) :
        \A j \in 1 .. (Len(ps) - 1) : ps[j] < ps[j + 1]}

NextEntry ==
    \/ \E node \in NodeChoices(nbNodes) : AddNodeE(node)
    \/ \E ps \in ParentLists : AddEdgesE(nbNodes - 1, ps)
    \/ \E nodeID \in 0 .. (nbNodes - 1) : MarkEntryNode(nodeID)
    \/ EntryLevelsStart
    \/ EntryRound
    \/ EntryFinish

SpecEntry == InitEntry /\ [][NextEntry]_vars

\* a DAG of either variant of the package, built and then levelled
SpecDAGs == (InitLevels \/ InitEntry) /\ [][NextLevels \/ NextEntry]_vars

\* ------------------------------------------------ properties of Levels()
\* places <<k, j>> of the result that hold node n
Places(n) == {kj \in {<<k, j>> : k \in DOMAIN levels, j \in 1 .. MaxNodes * MaxNodes} :
                 kj[2] \in DOMAIN levels[kj[1]] /\ levels[kj[1]][kj[2]] = n}

\* longest-path depth of n in the graph stored in parents
RECURSIVE Depth(_)
Depth(n) ==
    IF parents[n] = <<>> THEN 0
    ELSE 1 + Max({Depth(parents[n][j]) : j \in DOMAIN parents[n]})

\* the rounds of Levels() run by one thread that takes the candidates in order
RECURSIVE SeqScan(_, _, _, _, _)
SeqScan(cur, i, sol, seen, acc) ==
    IF i > Len(cur) THEN acc
    ELSE LET n == cur[i]
         IN IF n \in seen THEN SeqScan(cur, i + 1, sol, seen, acc)
            ELSE IF \E j \in DOMAIN parents[n] : ~sol[parents[n][j]]
                 THEN SeqScan(cur, i + 1, sol, seen \cup {n},
                              [acc EXCEPT !.nxt = Append(@, n)])
                 ELSE SeqScan(cur, i + 1, sol, seen \cup {n},
                              [lvl |-> Append(acc.lvl, n),
                               nxt |-> acc.nxt \o children[n]])

RECURSIVE SeqRounds(_, _, _)
SeqRounds(cur, sol, lvls) ==
    IF cur = <<>> THEN lvls
    ELSE LET r == SeqScan(cur, 1, sol, {}, [lvl |-> <<>>, nxt |-> <<>>])
         IN SeqRounds(r.nxt, [n \in Nodes |-> sol[n] \/ n \in Range(r.lvl)],
                      Append(lvls, SortInts(r.lvl)))

SeqLevels ==
    LET entries == {n \in Nodes : parents[n] = <<>>}
        RECURSIVE Kids(_)
        Kids(i) == IF i >= MaxNodes THEN <<>>
                   ELSE (IF i \in entries THEN children[i] ELSE <<>>) \o Kids(i + 1)
        RECURSIVE Asc(_)
        Asc(i) == IF i >= MaxNodes THEN <<>>
                  ELSE (IF i \in entries THEN <<i>> ELSE <<>>) \o Asc(i + 1)
    IN SeqRounds(Kids(0), [n \in Nodes |-> n \in entries], <<Asc(0)>>)

StrictlyAscending(s) == \A a, b \in DOMAIN s : a < b => s[a] < s[b]

\* C1: level monotonicity. In the result of Levels(), every parent of a node
\* placed in level k is placed in some level j < k.
C1_LevelMonotonicity ==
    pc = "done" =>
        \A k \in DOMAIN levels : \A j \in DOMAIN levels[k] :
            \A p \in Range(parents[levels[k][j]]) :
                \E k2 \in DOMAIN levels : k2 < k /\ p \in Range(levels[k2])

\* a result of three levels or more in which a node has two different parents
C1_Witness ==
    /\ pc = "done"
    /\ numCPU = 2
    /\ Len(levels) >= 3
    /\ \E n \in Nodes : Cardinality(Range(parents[n])) >= 2

\* C2: coverage. Every added node index appears in exactly one level of the
\* result, and exactly once inside that level.
C2_Coverage ==
    pc = "done" => \A n \in 0 .. (nbNodes - 1) : Cardinality(Places(n)) = 1

\* a result for a full DAG where a node has two parents that are both entry
\* nodes, so that it is a candidate twice in the first round, with two workers
C2_Witness ==
    /\ pc = "done"
    /\ numCPU = 2
    /\ nbNodes = MaxNodes
    /\ \E n \in Nodes : \E a, b \in Range(parents[n]) :
          a # b /\ parents[a] = <<>> /\ parents[b] = <<>>

\* C6: determinism. The result of Levels() is the one of the single-threaded
\* in-order run, whatever the workers' interleaving and the CPU count, and
\* every level's node list is strictly ascending.
C6_Deterministic ==
    pc = "done" =>
        /\ levels = SeqLevels
        /\ \A k \in DOMAIN levels : StrictlyAscending(levels[k])

\* a result, with two workers, holding a level after level 0 of two nodes or more
C6_Witness ==
    /\ pc = "done"
    /\ numCPU = 2
    /\ \E k \in DOMAIN levels : k >= 2 /\ Len(levels[k]) >= 2

\* C7: minimal levels. A node is in level 0 iff it has no parents, and every
\* node is in the level given by its longest-path depth, 1 + max over its parents.
C7_MinimalLevels ==
    pc = "done" =>
        /\ \A n \in Nodes : n \in Range(levels[1]) <=> parents[n] = <<>>
        /\ \A n \in Nodes :
              \E k \in DOMAIN levels : n \in Range(levels[k]) /\ k - 1 = Depth(n)
        /\ \A k \in DOMAIN levels : \A j \in DOMAIN levels[k] :
              Depth(levels[k][j]) = k - 1

\* a result where a node of depth 2 also has an entry node as parent: it is a
\* candidate in round 1 and has to be retried
C7_Witness ==
    /\ pc = "done"
    /\ \E n \in Nodes :
          /\ Depth(n) = 2
          /\ \E p \in Range(parents[n]) : parents[p] = <<>>

\* ------------------------------------------------- properties of Solve
\* Solve has returned a value vector with a nil error / with a constraint error
ReturnedOk == result.status = "ok"

ReturnedError == result.status = "error"

\* every constraint index of the system, and the level a constraint is in
ConstraintIds == UNION {Range(cs.Levels[l]) : l \in DOMAIN cs.Levels}

LevelOf(i) == CHOOSE l \in DOMAIN cs.Levels : i \in Range(cs.Levels[l])

\* the level is dispatched to the pool
IsPooled(l) == ~IsInline(Len(cs.Levels[l]))

\* the reference run: the levels in order, each constraint in order, solved
\* and then checked, stopping at the first one that fails
RECURSIVE SeqFrom(_, _, _)
RECURSIVE SeqSolved(_, _, _)
SeqFrom(l, j, sol) ==
    IF l > Len(cs.Levels) THEN [status |-> "ok", sol |-> sol]
    ELSE IF j > Len(cs.Levels[l]) THEN SeqFrom(l + 1, 1, sol)
    ELSE SeqSolved(l, j, SolveConstraint(ConstraintAt(cs.Levels[l][j]), sol))

SeqSolved(l, j, o) ==
    IF o.status # "ok" THEN o
    ELSE IF ~CheckConstraint(ConstraintAt(cs.Levels[l][j]), o.sol)
         THEN [status |-> "err", sol |-> o.sol]
         ELSE SeqFrom(l, j + 1, o.sol)

SeqSolve == SeqFrom(1, 1, CopyWitness(NewSolution, witness))

\* C3: whenever Solve returns a nil error, every constraint of the system has
\* residue qL*xL + qR*xR + qO*xO + qM0*qM1*xL*xR + qK = 0 on the returned vector.
C3_SuccessSatisfies ==
    ReturnedOk => \A i \in ConstraintIds : Residue(ConstraintAt(i), result) = 0

\* the levels of the tasks that are not finished: queued, or held by a goroutine
\* that has not yet called wg.Done
UnfinishedLevels ==
    {psTasks[k].lv : k \in DOMAIN psTasks}
    \cup {psWorkers[w].lv : w \in {v \in DOMAIN psWorkers :
             psWorkers[v].pc \in {"solve", "check", "senderr", "faildone", "wgdone"}}}

\* C4: level barrier. While a task of level l is unfinished (also one that
\* failed), no constraint of a later level has started being solved; and the
\* main goroutine solves a level inline only when no task is unfinished.
C4_LevelBarrier ==
    /\ \A u \in UnfinishedLevels : \A b \in begun : b <= u
    /\ psPc \in {"inline", "inlinecheck"} => UnfinishedLevels = {}

\* a level after a pooled level has started being solved, on two CPUs
C4_Witness ==
    /\ numCPU = 2
    /\ \E l \in begun : l > 1 /\ IsPooled(l - 1)

\* C5: solver determinism. Whatever the interleaving and the number of CPUs,
\* the vector Solve returns is the one of the reference run on the same
\* system and witness.
C5_SolverDeterministic ==
    (ReturnedOk \/ ReturnedError) => result.values = SeqSolve.sol.values

\* C8: witness prefix preservation. In the vector Solve returns, with a nil
\* error or with an error raised after the witness was copied, positions
\* 0..nbPublic+nbSecret-1 equal the supplied witness.
C8_WitnessPrefix ==
    (ReturnedOk \/ ReturnedError) =>
        \A w \in 1 .. Len(witness) : result.values[w - 1] = witness[w]

\* C9: full population. Whenever Solve returns a nil error, solved[i] is true
\* for every wire i < V.
C9_FullPopulation ==
    ReturnedOk => \A w \in Wires : solution.solved[w]

\* C10: a failed constraint makes Solve return an error, never nil; the CID of
\* the error is a constraint that really failed, in the first level that has a
\* failure, and no constraint of a later level has started being solved.
C10_ErrorCID ==
    /\ ReturnedOk => failed = {}
    /\ ReturnedError =>
          /\ result.cid \in failed
          /\ \A f \in failed : LevelOf(f) >= LevelOf(result.cid)
          /\ \A b \in begun : b <= LevelOf(result.cid)

\* two tasks of a pooled level have each failed and Solve has returned the
\* error that was queued first
C10_Witness ==
    /\ ReturnedError
    /\ IsPooled(LevelOf(result.cid))
    /\ Cardinality(failed) = 2

\* C11: witness size validation. If len(witness) != nbPublic + nbSecret, Solve
\* returns the witness-size error; the solution state was not built, no pool
\* goroutine was started, no constraint was solved, and the returned vector
\* has length V with every entry zero.
C11_WitnessSize ==
    (psPc # "start" /\ Len(witness) # cs.NbPublic + cs.NbSecret) =>
        /\ result.status = "wsize"
        /\ solution = <<>>
        /\ \A w \in DOMAIN psWorkers : psWorkers[w].pc = "off"
        /\ begun = {} /\ failed = {}
        /\ DOMAIN result.values = 0 .. (NbVariables - 1)
        /\ \A w \in DOMAIN result.values : result.values[w] = 0

\* Solve has returned on a witness that is too short
C11_Witness ==
    /\ result.status = "wsize"
    /\ Len(witness) < cs.NbPublic + cs.NbSecret

\* C12: force mode. With the prover option force set, a constraint whose check
\* fails does not make Solve return an error.
C12_ForceSuppresses ==
    force => ~(ReturnedError /\ result.cid \in checkFailed)

\* every level was solved without an error and parallelSolve has returned nil
LevelsComplete == psLevel > Len(cs.Levels) /\ psPc # "level"

\* C13: unsolved wires are an error value. If all levels complete without error
\* and isValid() is false, Solve returns an UnsolvedWires error to its caller.
C13_UnsolvedWiresError ==
    (LevelsComplete /\ ~IsValid(solution)) => result.status = "unsolved"

\* every pool goroutine has left its range loop
AllExited == \A w \in DOMAIN psWorkers : psWorkers[w].pc = "exited"

\* no pool goroutine holds a task, so none will send on chError
NoneWorking == \A w \in DOMAIN psWorkers : psWorkers[w].pc \in {"idle", "exited"}

\* C14: the pool is scoped to the call. On every return of parallelSolve
\* (success, error in an inline level, error in a pooled level) the channels
\* are closed; once they are closed no goroutine holds a task or sends on
\* chError; and every pool goroutine eventually exits.
C14_PoolScoped ==
    /\ []((ReturnedOk \/ ReturnedError) => psClosed)
    /\ [](psClosed => (NoneWorking /\ psTasks = <<>>))
    /\ ((ReturnedOk \/ ReturnedError) ~> AllExited)

\* Solve has returned the error of a pooled level and both goroutines are gone
C14_Witness ==
    /\ ReturnedError
    /\ IsPooled(LevelOf(result.cid))
    /\ numCPU = 2
    /\ AllExited

\* ------------------------------------------------ properties of AddEdges
\* the proper ancestors of n along the stored in-edges
RECURSIVE Ancestors(_)
Ancestors(n) == UNION {{q} \cup Ancestors(q) : q \in Range(parents[n])}

\* C15: AddEdges performs transitive reduction. The stored in-edges of a node
\* hold no parent that is an ancestor of another stored parent, and only the
\* stored parents have the node as a child.
C15_TransitiveReduction ==
    \A n \in 0 .. (nbNodes - 1) :
        /\ \A q \in Range(parents[n]) :
              ~\E r \in Range(parents[n]) : q \in Ancestors(r)
        /\ \A q \in 0 .. (nbNodes - 1) :
              n \in Range(children[q]) => q \in Range(parents[n])

\* how many times q is listed in s
Count(q, s) == Cardinality({j \in DOMAIN s : s[j] = q})

RECURSIVE AscendingOf(_)
AscendingOf(S) ==
    IF S = {} THEN <<>>
    ELSE <<CHOOSE x \in S : \A y \in S : x <= y>>
         \o AscendingOf(S \ {CHOOSE x \in S : \A y \in S : x <= y})

\* the in-edges of n that no other in-edge of n implies, ascending
ReducedParents(n) ==
    AscendingOf(({q \in Range(parents[n]) :
                         ~\E r \in Range(parents[n]) : q \in Ancestors(r)}))

\* the out-edges that go with ReducedParents, ascending
ReducedChildren(q) ==
    AscendingOf(({n \in Nodes : q \in Range(ReducedParents(n))}))

\* Levels() run by one thread on the graph with in-edges par and out-edges chi
RECURSIVE ScanOn(_, _, _, _, _, _, _)
ScanOn(par, chi, cur, i, sol, seen, acc) ==
    IF i > Len(cur) THEN acc
    ELSE IF cur[i] \in seen THEN ScanOn(par, chi, cur, i + 1, sol, seen, acc)
    ELSE IF \E j \in DOMAIN par[cur[i]] : ~sol[par[cur[i]][j]]
         THEN ScanOn(par, chi, cur, i + 1, sol, seen \cup {cur[i]},
                     [acc EXCEPT !.nxt = Append(@, cur[i])])
         ELSE ScanOn(par, chi, cur, i + 1, sol, seen \cup {cur[i]},
                     [lvl |-> Append(acc.lvl, cur[i]),
                      nxt |-> acc.nxt \o chi[cur[i]]])

RECURSIVE RoundsOn(_, _, _, _, _)
RECURSIVE RoundOn(_, _, _, _, _)
RoundsOn(par, chi, cur, sol, lvls) ==
    IF cur = <<>> THEN lvls
    ELSE RoundOn(par, chi, sol, lvls,
                 ScanOn(par, chi, cur, 1, sol, {}, [lvl |-> <<>>, nxt |-> <<>>]))

RoundOn(par, chi, sol, lvls, r) ==
    RoundsOn(par, chi, r.nxt, [n \in Nodes |-> sol[n] \/ n \in Range(r.lvl)],
             Append(lvls, SortInts(r.lvl)))

RECURSIVE KidsOn(_, _, _)
KidsOn(par, chi, i) ==
    IF i >= MaxNodes THEN <<>>
    ELSE (IF par[i] = <<>> THEN chi[i] ELSE <<>>) \o KidsOn(par, chi, i + 1)

LevelsOn(par, chi) ==
    RoundsOn(par, chi, KidsOn(par, chi, 0), [n \in Nodes |-> par[n] = <<>>],
             <<AscendingOf(({n \in Nodes : par[n] = <<>>}))>>)

LevelsOfReduced ==
    LevelsOn([n \in Nodes |-> ReducedParents(n)], [q \in Nodes |-> ReducedChildren(q)])

EntryLevelled == pc \in {"eround", "edone", "epanic"}

DenForR(c, sol) ==
    FrAdd(FrMul(FrMul(Coeff(c.M[1].cid), Coeff(c.M[2].cid)), sol.values[c.L.wid]),
          Coeff(c.R.cid))

ValueForR(c, sol) ==
    FrNeg(FrDiv(FrAdd(FrAdd(ComputeTerm(sol, c.L), ComputeTerm(sol, c.O)), Coeff(c.K)),
                DenForR(c, sol)))

\* computeHints returned h with R as the unknown and den is not zero
SolvesForR(c, h) == h.status = "ok" /\ h.r = 1 /\ DenForR(c, h.sol) # 0

\* solveConstraint with the outcome o gave R its value and left L alone
RSolved(c, h, o) ==
    /\ o.status = "ok"
    /\ o.sol.solved[c.R.wid]
    /\ o.sol.values[c.R.wid] = ValueForR(c, h.sol)
    /\ o.sol.values[c.L.wid] = h.sol.values[c.L.wid]

RSolvedWhenUnknown(c, h, o) == SolvesForR(c, h) => RSolved(c, h, o)

\* the constraint the main goroutine is about to solve inline
InlineConstraint == ConstraintAt(LevelAt(psLevel)[psI])

\* C19: solve for R. When computeHints reports R as the unknown and den is not
\* zero, solveConstraint gives the R wire the value -(qL*xL + qO*xO + qK)/den,
\* marks it solved and leaves the L wire as it was; stated for every call of
\* solveConstraint that Solve is about to make, inline or in a pool goroutine.
C19_SolveForR ==
    /\ (Alive /\ psPc = "inline") =>
          RSolvedWhenUnknown(InlineConstraint,
                             ComputeHints(InlineConstraint, solution),
                             SolveConstraint(InlineConstraint, solution))
    /\ \A w \in DOMAIN psWorkers :
          (Alive /\ psWorkers[w].pc = "solve") =>
              RSolvedWhenUnknown(ConstraintAt(TaskConstraint(w)),
                                 ComputeHints(ConstraintAt(TaskConstraint(w)), solution),
                                 SolveConstraint(ConstraintAt(TaskConstraint(w)), solution))

\* the wire that the branch for the unknown at position r hands to solution.set
TargetWire(c, r) ==
    IF r = 1 THEN WireSetForR(c) ELSE IF r = 0 THEN WireSetForL(c) ELSE c.O.wid

\* computeHints returned h with an unknown and the branch gets to its set:
\* the branches for R and L panic before it when the other wire is unsolved
ReachesSet(c, h) ==
    /\ h.status = "ok"
    /\ h.r \in {0, 1, 2}
    /\ h.r = 1 => h.sol.solved[c.L.wid]
    /\ h.r = 0 => h.sol.solved[c.R.wid]

SetsUnsolvedWire(c, h) == ReachesSet(c, h) => ~h.sol.solved[TargetWire(c, h.r)]

\* C20: single assignment. Every solution.set that solveConstraint makes in its
\* L, R and O branches is for a wire that is not solved yet; stated for every
\* call of solveConstraint that Solve is about to make, inline or in a pool
\* goroutine.
C20_SingleAssignment ==
    /\ (Alive /\ psPc = "inline") =>
          SetsUnsolvedWire(InlineConstraint, ComputeHints(InlineConstraint, solution))
    /\ \A w \in DOMAIN psWorkers :
          (Alive /\ psWorkers[w].pc = "solve") =>
              SetsUnsolvedWire(ConstraintAt(TaskConstraint(w)),
                               ComputeHints(ConstraintAt(TaskConstraint(w)), solution))

\* den in the branch lro == 0, from the solution sol that computeHints left
DenForL(c, sol) ==
    FrAdd(FrMul(FrMul(Coeff(c.M[1].cid), Coeff(c.M[2].cid)), sol.values[c.R.wid]),
          Coeff(c.L.cid))

\* computeHints returned h with R or L as the unknown, the other wire is
\* solved, and the denominator of the division is zero
ZeroDen(c, h) ==
    /\ h.status = "ok"
    /\ \/ h.r = 1 /\ h.sol.solved[c.L.wid] /\ DenForR(c, h.sol) = 0
       \/ h.r = 0 /\ h.sol.solved[c.R.wid] /\ DenForL(c, h.sol) = 0

\* solveConstraint returns an error and has assigned nothing after computeHints
FailsUnassigned(h, o) == o.status = "err" /\ o.sol = h.sol

FailsOnZeroDen(c, h, o) == ZeroDen(c, h) => FailsUnassigned(h, o)

\* C21: degenerate denominator. When R or L is the unknown and the denominator
\* qM*x + q is zero, solveConstraint returns an error, whatever the numerator,
\* and assigns no wire; stated for every call of solveConstraint that Solve is
\* about to make, inline or in a pool goroutine.
C21_ZeroDenFails ==
    /\ (Alive /\ psPc = "inline") =>
          FailsOnZeroDen(InlineConstraint,
                         ComputeHints(InlineConstraint, solution),
                         SolveConstraint(InlineConstraint, solution))
    /\ \A w \in DOMAIN psWorkers :
          (Alive /\ psWorkers[w].pc = "solve") =>
              FailsOnZeroDen(ConstraintAt(TaskConstraint(w)),
                             ComputeHints(ConstraintAt(TaskConstraint(w)), solution),
                             SolveConstraint(ConstraintAt(TaskConstraint(w)), solution))

\* the value of L in the branch lro == 0, from the solution sol that
\* computeHints left
ValueForL(c, sol) ==
    FrNeg(FrDiv(FrAdd(FrAdd(ComputeTerm(sol, c.R), ComputeTerm(sol, c.O)), Coeff(c.K)),
                DenForL(c, sol)))

\* computeHints returned h with L as the unknown and den is not zero
SolvesForL(c, h) == h.status = "ok" /\ h.r = 0 /\ DenForL(c, h.sol) # 0

\* solveConstraint with the outcome o gave L its value, and the equation holds
LSolved(c, h, o) ==
    /\ o.status = "ok"
    /\ o.sol.solved[c.L.wid]
    /\ o.sol.values[c.L.wid] = ValueForL(c, h.sol)
    /\ Residue(c, o.sol) = 0

LSolvedWhenUnknown(c, h, o) == SolvesForL(c, h) => LSolved(c, h, o)

\* C22: solve for L. When computeHints reports L as the unknown and den =
\* qM*xR + qL is not zero, solveConstraint gives the L wire the value
\* -(qR*xR + qO*xO + qK)/den and the constraint equation holds afterwards;
\* stated for every call of solveConstraint that Solve is about to make.
C22_SolveForL ==
    /\ (Alive /\ psPc = "inline") =>
          LSolvedWhenUnknown(InlineConstraint,
                             ComputeHints(InlineConstraint, solution),
                             SolveConstraint(InlineConstraint, solution))
    /\ \A w \in DOMAIN psWorkers :
          (Alive /\ psWorkers[w].pc = "solve") =>
              LSolvedWhenUnknown(ConstraintAt(TaskConstraint(w)),
                                 ComputeHints(ConstraintAt(TaskConstraint(w)), solution),
                                 SolveConstraint(ConstraintAt(TaskConstraint(w)), solution))

LSolvedNonZero(c, h, o) ==
    /\ SolvesForL(c, h)
    /\ LSolved(c, h, o)
    /\ o.sol.values[c.L.wid] # 0
    /\ h.sol.values[c.R.wid] # 0

\* the main goroutine is about to solve a constraint for L, from a non-zero
\* value of R, and the value L gets is not zero
C22_Witness ==
    /\ Alive
    /\ psPc = "inline"
    /\ LSolvedNonZero(InlineConstraint,
                      ComputeHints(InlineConstraint, solution),
                      SolveConstraint(InlineConstraint, solution))

\* m0*m1 + l + r + coeffs[K] over the solution sol that computeHints left
SumForO(c, sol) ==
    FrAdd(FrAdd(FrAdd(FrMul(ComputeTerm(sol, c.M[1]), ComputeTerm(sol, c.M[2])),
                      ComputeTerm(sol, c.L)),
                ComputeTerm(sol, c.R)),
          Coeff(c.K))

\* computeHints returned h with O as the unknown
SolvesForO(h) == h.status = "ok" /\ h.r = 2

\* solveConstraint with the outcome o gave O the value v
OSolved(c, o, v) ==
    /\ o.status = "ok"
    /\ o.sol.solved[c.O.wid]
    /\ o.sol.values[c.O.wid] = v

\* O gets the sum times coeffsNegInv[O.coeffID], that is -sum/coeffs[O.coeffID],
\* and the equation holds
OSolvedWhenUnknown(c, h, o) ==
    SolvesForO(h) =>
        /\ OSolved(c, o, FrMul(SumForO(c, h.sol), FrNeg(FrInv(Coeff(c.O.cid)))))
        /\ o.sol.values[c.O.wid] = FrNeg(FrDiv(SumForO(c, h.sol), Coeff(c.O.cid)))
        /\ Residue(c, o.sol) = 0

\* C23 (amended): solve for O. When O is the unknown, solveConstraint sets
\* values[O.wireID] = (m0*m1 + l + r + coeffs[K]) * coeffsNegInv[O.coeffID]
\* with coeffsNegInv[i] = -coeffs[i]^(-1), which is -(m0*m1 + l + r +
\* coeffs[K])/coeffs[O.coeffID], and the constraint equation holds afterwards;
\* stated for every call of solveConstraint that Solve is about to make.
C23_SolveForO ==
    /\ (Alive /\ psPc = "inline") =>
          OSolvedWhenUnknown(InlineConstraint,
                             ComputeHints(InlineConstraint, solution),
                             SolveConstraint(InlineConstraint, solution))
    /\ \A w \in DOMAIN psWorkers :
          (Alive /\ psWorkers[w].pc = "solve") =>
              OSolvedWhenUnknown(ConstraintAt(TaskConstraint(w)),
                                 ComputeHints(ConstraintAt(TaskConstraint(w)), solution),
                                 SolveConstraint(ConstraintAt(TaskConstraint(w)), solution))

\* O gets minus the sum, times coeffsNegInv[O.coeffID]
OSolvedNegated(c, h, o) ==
    SolvesForO(h) =>
        OSolved(c, o, FrMul(FrNeg(SumForO(c, h.sol)), FrNeg(FrInv(Coeff(c.O.cid)))))

\* C23 as stated: when O is the unknown, solveConstraint sets values[O.wireID]
\* = -(m0*m1 + l + r + coeffs[K]) * coeffsNegInv[O.coeffID] with
\* coeffsNegInv[i] = -coeffs[i]^(-1).
C23_AsStated ==
    /\ (Alive /\ psPc = "inline") =>
          OSolvedNegated(InlineConstraint,
                         ComputeHints(InlineConstraint, solution),
                         SolveConstraint(InlineConstraint, solution))
    /\ \A w \in DOMAIN psWorkers :
          (Alive /\ psWorkers[w].pc = "solve") =>
              OSolvedNegated(ConstraintAt(TaskConstraint(w)),
                             ComputeHints(ConstraintAt(TaskConstraint(w)), solution),
                             SolveConstraint(ConstraintAt(TaskConstraint(w)), solution))

OSolvedNonZero(c, h, o) ==
    /\ SolvesForO(h)
    /\ o.status = "ok"
    /\ SumForO(c, h.sol) # 0
    /\ Coeff(c.O.cid) \notin {1, P - 1}
    /\ ComputeTerm(h.sol, c.M[1]) # 0
    /\ ComputeTerm(h.sol, c.M[2]) # 0

\* the main goroutine is about to solve a constraint for O whose coefficient is
\* neither 1 nor -1, with a product term and a sum that are not zero
C23_Witness ==
    /\ Alive
    /\ psPc = "inline"
    /\ OSolvedNonZero(InlineConstraint,
                      ComputeHints(InlineConstraint, solution),
                      SolveConstraint(InlineConstraint, solution))

\* ------------------------------------------ properties of the solution state
\* number of true entries of solution.solved
NbSolvedFlags == Cardinality({w \in Wires : solution.solved[w]})

\* parallelSolve is at the top of its loop over the levels, or Solve has
\* returned with a solution state
AtLevelBoundary ==
    /\ solution # <<>>
    /\ psPc = "level" \/ ReturnedOk \/ ReturnedError

\* C24: at every level boundary and when Solve returns, nbSolved is the number
\* of true entries of solved, so that isValid() holds iff every wire is solved.
C24_NbSolvedCounts ==
    AtLevelBoundary =>
        /\ solution.nbSolved = NbSolvedFlags
        /\ IsValid(solution) <=> \A w \in Wires : solution.solved[w]

\* ------------------------------------------ properties of computeHints
\* the wire of the constraint c at position pos (L = 0, R = 1, O = 2)
WireAt(c, pos) == IF pos = 0 THEN c.L.wid ELSE IF pos = 1 THEN c.R.wid ELSE c.O.wid

\* the position pos of c is an unknown in the solution sol: its wire takes
\* part in the constraint and is not solved
IsUnknown(c, sol, pos) ==
    IF pos = 0 THEN LIsCandidate(c, sol)
    ELSE IF pos = 1 THEN RIsCandidate(c, sol)
    ELSE OIsCandidate(c, sol)

\* the unknown positions whose wire has no hint, and those whose wire has one
Unhinted(c, sol) ==
    {pos \in 0 .. 2 : IsUnknown(c, sol, pos) /\ WireAt(c, pos) \notin DOMAIN cs.MHints}

Hinted(c, sol) ==
    {pos \in 0 .. 2 : IsUnknown(c, sol, pos) /\ WireAt(c, pos) \in DOMAIN cs.MHints}

\* the first of a set of positions
FirstOf(S) == CHOOSE x \in S : \A y \in S : x <= y

\* the outcome of the hint call that computeHints makes first, if it makes one
FirstHintCall(c, sol) ==
    IF Hinted(c, sol) = {} THEN [status |-> "ok", sol |-> sol]
    ELSE SolveWithHint(sol, cs.MHints[WireAt(c, FirstOf(Hinted(c, sol)))])

\* what computeHints returned as h, given the outcome f of the hint call: an
\* error without a position if the call failed; else -1 if no unknown is left
\* without a hint, and a position of the unhinted unknown wire if there is one
HintsResult(c, sol, f, h) ==
    IF f.status = "err" THEN h.status = "err" /\ h.r = -1
    ELSE IF f.status # "ok" THEN TRUE
    ELSE /\ h.status = "ok"
         /\ IF Unhinted(c, sol) = {} THEN h.r = -1 ELSE h.r \in Unhinted(c, sol)

\* at most one unsolved wire of c has no hint
OneUnhintedWire(c, sol) == Cardinality({WireAt(c, pos) : pos \in Unhinted(c, sol)}) <= 1

HintsResultWhenOne(c, sol, f, h) == OneUnhintedWire(c, sol) => HintsResult(c, sol, f, h)

OwnCoefficient(c, pos) ==
    IF pos = 0 THEN c.L.cid # 0 ELSE IF pos = 1 THEN c.R.cid # 0 ELSE c.O.cid # 0

\* the coefficient of the position or, for L and R, the coefficient of its
\* factor of the product term is not zero
AnyCoefficient(c, pos) ==
    \/ OwnCoefficient(c, pos)
    \/ pos = 0 /\ c.M[1].cid # 0
    \/ pos = 1 /\ c.M[2].cid # 0

\* computeHints, called with sol and returning h, made a hint call
HintCalled(sol, h) == h.status # "ok" \/ h.sol # sol

\* computeHints, called on c with sol and returning h, reported or hinted only
\* unsolved wires at positions of the set on, and none when the set holds no
\* unsolved wire
TriggeredOnlyOn(c, sol, h, on) ==
    /\ (h.status = "ok" /\ h.r # -1) => (h.r \in on /\ ~sol.solved[WireAt(c, h.r)])
    /\ HintCalled(sol, h) =>
          \E pos \in on : ~sol.solved[WireAt(c, pos)] /\ WireAt(c, pos) \in DOMAIN cs.MHints
    /\ (\A pos \in on : sol.solved[WireAt(c, pos)]) =>
          (h.status = "ok" /\ h.r = -1 /\ h.sol = sol)

\* every unsolved wire at a position of the set on was hinted or reported
TriggeredOn(c, sol, h, on) ==
    \A pos \in on :
        ~sol.solved[WireAt(c, pos)] =>
            IF WireAt(c, pos) \in DOMAIN cs.MHints THEN HintCalled(sol, h)
            ELSE h.status = "ok" => h.r # -1

TriggerAmended(c, sol, h) ==
    /\ TriggeredOnlyOn(c, sol, h, {pos \in 0 .. 2 : AnyCoefficient(c, pos)})
    /\ TriggeredOn(c, sol, h, {pos \in 0 .. 2 : AnyCoefficient(c, pos)})

\* C26 (amended): hint trigger condition. computeHints treats the wire of a
\* position as unknown (calls its hint or reports it) only if the wire is
\* unsolved and, for O, the coefficient of O is not zero, for L and R, the
\* coefficient of the position or that of its factor of the product term (M[0]
\* for L, M[1] for R) is not zero; every such wire is hinted or reported, and a
\* wire all of whose coefficients are zero never is.
C26_HintTrigger ==
    /\ (Alive /\ psPc = "inline") =>
          TriggerAmended(InlineConstraint, solution,
                         ComputeHints(InlineConstraint, solution))
    /\ \A w \in DOMAIN psWorkers :
          (Alive /\ psWorkers[w].pc = "solve") =>
              TriggerAmended(ConstraintAt(TaskConstraint(w)), solution,
                             ComputeHints(ConstraintAt(TaskConstraint(w)), solution))

\* C26 as stated: computeHints calls the hint of a wire or reports it only if
\* the wire is unsolved and the coefficient of its own position is not zero.
C26_AsStated ==
    /\ (Alive /\ psPc = "inline") =>
          TriggeredOnlyOn(InlineConstraint, solution,
                          ComputeHints(InlineConstraint, solution),
                          {pos \in 0 .. 2 : OwnCoefficient(InlineConstraint, pos)})
    /\ \A w \in DOMAIN psWorkers :
          (Alive /\ psWorkers[w].pc = "solve") =>
              TriggeredOnlyOn(ConstraintAt(TaskConstraint(w)), solution,
                              ComputeHints(ConstraintAt(TaskConstraint(w)), solution),
                              {pos \in 0 .. 2 : OwnCoefficient(ConstraintAt(TaskConstraint(w)), pos)})

\* the main goroutine is about to call computeHints on a constraint whose L wire
\* is unsolved with a zero coefficient of its own and a non-zero one in the
\* product term, and computeHints reports L
C26_Witness ==
    /\ Alive
    /\ psPc = "inline"
    /\ ~OwnCoefficient(InlineConstraint, 0)
    /\ AnyCoefficient(InlineConstraint, 0)
    /\ ComputeHints(InlineConstraint, solution).r = 0

\* ------------------------------------------ properties of the rounds of Levels()
\* worker w holds a task and has not merged its results yet
Working(w) == workers[w].pc \in {"loop", "inspect", "merge"}

\* how many times n is listed in s, 0 if the worker w is not working
LocalCount(w, n, s) == IF Working(w) THEN Count(n, s) ELSE 0

RECURSIVE SumOver(_, _, _)
\* how many times n stands in the unmerged local levels of the workers 1..w,
\* plus the number of those workers that are inspecting the parents of n
SumOver(w, n, acc) ==
    IF w = 0 THEN acc
    ELSE SumOver(w - 1, n,
                 acc + LocalCount(w, n, workers[w].localLevel)
                     + (IF workers[w].pc = "inspect" /\ workers[w].n = n THEN 1 ELSE 0))

\* Levels() is in a round: tasks are being dispatched or waited for
InRound == pc \in {"dispatch", "wait"}

\* n is, or is about to be, at most once in the node list of the level of the round
PlacedAtMostOnce(n) == Count(n, levels[level + 1]) + SumOver(Len(workers), n, 0) <= 1

\* worker w goes on to inspect the parents of a node in this step
StartsInspect(w) == workers[w].pc = "loop" /\ workers'[w].pc = "inspect"

\* C27: atomic-swap deduplication. In each round a node, however often it is
\* listed in current and whichever workers hold the listings, has its parents
\* inspected by exactly one worker and is appended at most once to the node
\* list of the level. A worker inspects a node only if its swap found the node
\* untagged for the round; the tag is set with that swap and stays for the
\* round; at the end of the round every candidate is tagged; and no node is
\* twice in the level or in the results still to be merged.
C27_AtomicDedup ==
    /\ [](InRound => \A n \in Nodes : PlacedAtMostOnce(n))
    /\ []((pc = "wait" /\ wg = 0) => \A j \in DOMAIN current : visited[current[j]] = level)
    /\ [][\A w \in DOMAIN workers :
            StartsInspect(w) =>
                /\ visited[workers'[w].n] # level
                /\ visited'[workers'[w].n] = level]_vars
    /\ [][\A n \in Nodes :
            (InRound /\ level' = level) =>
                /\ visited[n] = level => visited'[n] = level
                /\ (visited[n] # level /\ visited'[n] = level) =>
                      \E w \in DOMAIN workers : StartsInspect(w) /\ workers'[w].n = n]_vars

\* two workers hold tasks of the same round that both list a node, one of them
\* has put it in its local level and the other has skipped it
C27_Witness ==
    /\ InRound
    /\ numCPU = 2
    /\ \E n \in Nodes :
          /\ Count(n, current) >= 2
          /\ workers[1].pc = "merge" /\ workers[2].pc = "merge"
          /\ n \in Range(workers[1].r) /\ n \in Range(workers[2].r)
          /\ Count(n, workers[1].localLevel) + Count(n, workers[2].localLevel) = 1

\* the nodes of the level that the round is building: merged or still local
RECURSIVE LocalLevels(_)
LocalLevels(w) ==
    IF w = 0 THEN {}
    ELSE LocalLevels(w - 1)
         \cup (IF Working(w) THEN Range(workers[w].localLevel) ELSE {})

BeingBuilt == Range(levels[level + 1]) \cup LocalLevels(Len(workers))

\* no worker holds a task or has results to merge or a wg.Done to call
AllMerged ==
    /\ chTasks = <<>>
    /\ \A w \in DOMAIN workers : ~Working(w) /\ workers[w].pc # "wgdone"

\* C28: round barrier. The solved flags of the nodes of a level are written
\* only after every worker of its round has merged its results and called
\* wg.Done; every task and every working worker belongs to the current round,
\* whose earlier levels are all marked solved; no node of the level being built
\* is solved while the round lasts; and no level, built or in the building,
\* holds a node together with one of its parents.
C28_RoundBarrier ==
    /\ [][(InRound /\ solved' # solved) =>
            (pc = "wait" /\ AllMerged /\ wg = 0
             /\ solved' = MarkSolved(solved, levels[level + 1]))]_vars
    /\ [](InRound =>
            /\ \A j \in DOMAIN chTasks : chTasks[j].level = level
            /\ \A w \in DOMAIN workers : Working(w) => workers[w].level = level
            /\ \A k \in 1 .. level : \A n \in Range(levels[k]) : solved[n]
            /\ \A n \in BeingBuilt : ~solved[n]
            /\ \A a, b \in BeingBuilt : a \notin Range(parents[b]))
    /\ [](pc \in {"round", "finish", "done"} =>
            \A k \in DOMAIN levels : \A a, b \in Range(levels[k]) :
                a \notin Range(parents[b]))

\* wg.Wait has returned in a round in which a node was a candidate together
\* with one of its parents: the parent is in the level, the node was inspected
\* and is left for the next round
C28_Witness ==
    /\ pc = "wait"
    /\ wg = 0
    /\ numCPU = 2
    /\ \E n, m \in Nodes :
          /\ n \in Range(levels[level + 1])
          /\ n \in Range(parents[m])
          /\ m \in Range(current)
          /\ visited[m] = level
          /\ m \notin Range(levels[level + 1])
          /\ m \in Range(next)

\* ------------------------------------------ properties of the pool of parallelSolve
\* the pool goroutines that hold a task for which wg.Done is still to come
Holding == {w \in DOMAIN psWorkers :
               psWorkers[w].pc \in {"solve", "check", "senderr", "faildone", "wgdone"}}

\* the pool goroutines that wait for a task
Idle == {w \in DOMAIN psWorkers : psWorkers[w].pc = "idle"}

\* wg.Wait of a pooled level is pending and the program runs
Waiting == Alive /\ psPc = "wait"

\* C29: pool liveness under failures. While the program runs, the WaitGroup
\* counter is the number of tasks queued or held, never negative: each task
\* gets one wg.Done, from a goroutine that finishes it or fails in it; every
\* queued task has an idle goroutine of its own to take it, whatever the number
\* of goroutines that left after a failure; and under fair scheduling every
\* wg.Wait of a pooled level returns.
C29_PoolLive ==
    /\ [](psWg >= 0)
    /\ [](Alive => psWg = Len(psTasks) + Cardinality(Holding))
    /\ [](Alive => Len(psTasks) <= Cardinality(Idle))
    /\ (Waiting ~> ~Waiting)

\* wg.Wait is about to return for a level both of whose tasks failed: both
\* goroutines sent their error, called wg.Done and left
C29_Witness ==
    /\ Waiting
    /\ numCPU = 2
    /\ psWg = 0
    /\ Len(psError) = 2
    /\ AllExited

\* ---- channel bounds of parallelSolve ----

\* the goroutines that reported an error or are about to
Failing == {w \in DOMAIN psWorkers : psWorkers[w].pc \in {"senderr", "faildone"}}

Gone == {w \in DOMAIN psWorkers : psWorkers[w].pc = "exited"}

\* the dispatch loop is at chTasks <- level[_start:_end]
SendsTask == Alive /\ psPc = "dispatch"

\* goroutine w is at chError <- &UnsatisfiedConstraintError{...}
SendsError(w) == Alive /\ psWorkers[w].pc = "senderr"

\* C30: no send of parallelSolve blocks: a task is sent only when chTasks has
\* room and an error only when chError has room; chTasks never holds more than
\* NumCPU tasks, a level is cut into at most NumCPU tasks and chTasks is empty
\* when the next level begins; chError never holds more than NumCPU errors,
\* every error in it (or about to be sent) comes from a different goroutine,
\* and a goroutine that reported an error takes no further task.
C30_ChannelBounds ==
    /\ [](SendsTask => Len(psTasks) < numCPU)
    /\ [](\A w \in DOMAIN psWorkers : SendsError(w) => Len(psError) < numCPU)
    /\ [](Alive => Len(psTasks) <= numCPU)
    /\ [](Alive => Len(psError) <= numCPU)
    /\ [](SendsTask => PoolNbTasks(Len(LevelAt(psLevel))) <= numCPU)
    /\ []((Alive /\ psPc = "level") => psTasks = <<>>)
    /\ [](Alive => Len(psError) + Cardinality({w \in DOMAIN psWorkers :
                                                 psWorkers[w].pc = "senderr"})
                      <= Cardinality(Gone \cup Failing))
    /\ [][\A w \in DOMAIN psWorkers :
             w \in Failing \cup Gone =>
                 psWorkers'[w].pc \in {"senderr", "faildone", "exited"}]_vars

\* both goroutines of a two-CPU pool failed: chError is full and a second
\* error was sent into it without blocking
C30_Witness ==
    /\ Alive
    /\ numCPU = 2
    /\ Len(psError) = numCPU
    /\ Cardinality(Gone \cup Failing) = 2

\* ---- the error returned when several constraints of a level fail ----

\* parallelSolve returned an error after two constraints of one level failed
ReturnedOfTwo ==
    /\ psPc = "returned"
    /\ result.status = "error"
    /\ Cardinality(failed) >= 2

\* the failure of the task that was dispatched first
FirstDispatched == FirstOf(failed)

\* C31: when two constraints of one pooled level fail, the constraint ID of
\* the error Solve returns is the same in every interleaving of the
\* goroutines: since the run in which the goroutine holding the first task
\* reports first returns the failure of that task, every run returns it.
C31_ErrorIndependent == ReturnedOfTwo => result.cid = FirstDispatched

\* ---- the partition of a level into tasks ----

\* ceil(n / 50)
CeilWork(n) == IF n % MinWorkPerCPU = 0 THEN n \div MinWorkPerCPU
               ELSE n \div MinWorkPerCPU + 1

\* T = min(NumCPU, ceil(n / 50))
BalancedT(n) == IF numCPU < CeilWork(n) THEN numCPU ELSE CeilWork(n)

\* the number of constraints of the k-th task sent (k from 1)
TaskSize(k) == psTasks[k].end - psTasks[k].start

\* the level that is being dispatched
DispatchedLen == Len(LevelAt(psLevel))

\* the dispatch loop of the level has sent all its tasks
AllDispatched == psPc = "wait" /\ psWorkers = [w \in 1 .. numCPU |-> idlePool]

\* the tasks sent so far are the first ones of the balanced partition into T
BalancedSoFar(n, T) ==
    /\ Len(psTasks) <= T
    /\ \A k \in DOMAIN psTasks :
          /\ psTasks[k].start = (IF k = 1 THEN 0 ELSE psTasks[k - 1].end)
          /\ TaskSize(k) = n \div T + (IF k <= n % T THEN 1 ELSE 0)
          /\ TaskSize(k) >= 1
          /\ psTasks[k].end <= n

\* C32: a level of n > 50 constraints is cut into T = min(NumCPU, ceil(n/50))
\* tasks, contiguous slices that follow one another from 0 to n (pairwise
\* disjoint, every constraint in exactly one); the first n mod T tasks hold
\* floor(n/T) + 1 constraints, the others floor(n/T), and none is empty.
C32_BalancedPartition ==
    /\ PoolNbTasks(DispatchedLen) = BalancedT(DispatchedLen)
    /\ BalancedSoFar(DispatchedLen, BalancedT(DispatchedLen))
    /\ AllDispatched =>
          /\ Len(psTasks) = BalancedT(DispatchedLen)
          /\ psTasks[Len(psTasks)].end = DispatchedLen

\* three CPUs are enough for 101 constraints although four are there, and
\* two of the three tasks hold an extra constraint
C32_Witness ==
    /\ AllDispatched
    /\ numCPU = 4
    /\ DispatchedLen = 2 * MinWorkPerCPU + 1
    /\ Len(psTasks) = 3
    /\ TaskSize(1) = 34 /\ TaskSize(2) = 34 /\ TaskSize(3) = 33

\* ---- termination of Levels() ----

\* Levels() has been called and has not returned
LevelsRunning == pc \in {"round", "dispatch", "wait", "finish"}

\* Levels() returned, the channel is closed and drained, every worker left
LevelsEnded ==
    /\ pc = "done"
    /\ chClosed
    /\ chTasks = <<>>
    /\ wg = 0
    /\ \A w \in DOMAIN workers : workers[w].pc = "exited"

\* C33: on an acyclic graph the round loop of Levels() ends after at most
\* nbNodes rounds, every task sent is taken and finished before the loop is
\* left, the channel is closed, Levels() returns and every worker exits.
C33_LevelsTerminates ==
    /\ [](LevelsRunning => level <= nbNodes)
    /\ [](pc \in {"finish", "done"} =>
            /\ chTasks = <<>>
            /\ wg = 0
            /\ \A w \in DOMAIN workers : workers[w].pc \in {"idle", "exited"})
    /\ [](pc = "done" => chClosed)
    /\ (LevelsRunning ~> LevelsEnded)

\* a chain of three nodes: two rounds were run by two workers
C33_Witness ==
    /\ LevelsEnded
    /\ numCPU = 2
    /\ nbNodes = 3
    /\ level = 2

\* ---- Levels() on a graph with a cycle ----

\* the nodes from which S is reached, S included
RECURSIVE ReachUp(_)
ReachUp(S) ==
    LET T == S \cup UNION {Range(parents[q]) : q \in S}
    IN IF T = S THEN S ELSE ReachUp(T)

OnCycle(n) == parents[n] # <<>> /\ n \in ReachUp(Range(parents[n]))

HasCycle == \E n \in Nodes : OnCycle(n)

\* the nodes that can be given a level: the nodes without parents, then the
\* nodes all of whose parents can
RECURSIVE CanLevel(_)
CanLevel(S) ==
    LET T == S \cup {n \in Nodes : Range(parents[n]) \subseteq S}
    IN IF T = S THEN S ELSE CanLevel(T)

Levellable == CanLevel({})

\* a node that cannot be given a level is the child of one that can: it is
\* pushed to current and retried in every round
FedToRounds ==
    \E q \in Levellable : \E j \in DOMAIN children[q] : children[q][j] \notin Levellable

LevelsCalled == pc # "build"

\* the round loop has not ended and the list it tests is not empty
NeverEnds ==
    /\ pc \notin {"finish", "done", "panic"}
    /\ pc = "round" => current # <<>>

\* C34: on a graph with a cycle, Levels() never terminates when a node that
\* cannot be levelled (on a cycle or below one) is the child of a node that
\* can; otherwise the loop ends within as many rounds as nodes can be
\* levelled, and what is returned holds no node of a cycle.
C34_CycleNonTermination ==
    (LevelsCalled /\ HasCycle) =>
        /\ FedToRounds => NeverEnds
        /\ ~FedToRounds => level <= Cardinality(Levellable)
        /\ pc \in {"finish", "done", "panic"} =>
              \A k \in DOMAIN levels : \A n \in Range(levels[k]) : n \in Levellable

\* C34 as stated: on every graph with a cycle Levels() never terminates
C34_AsStated == (LevelsCalled /\ HasCycle) => NeverEnds

\* node 1 depends on the entry node 0 and on itself: RoundCap rounds were
\* run and node 1 is still the candidate
C34_Witness ==
    /\ HasCycle
    /\ FedToRounds
    /\ pc = "round"
    /\ level = RoundCap
    /\ current # <<>>

\* ---- the nodes in the levels of Levels() ----

\* the indexes that AddNode returned so far
Added == 0 .. (nbNodes - 1)

LevelsReturned == pc = "done"

\* C35: every index in the levels returned by Levels() was returned by an
\* earlier AddNode call, also when fewer nodes were added than the size
\* given to New.
C35_OnlyAddedNodes ==
    LevelsReturned => \A k \in DOMAIN levels : Range(levels[k]) \subseteq Added

\* ---- entry-node variant: the places of a node in the levels ----

\* every node was given its index as CID
CIDsAreIndexes == \A i \in DOMAIN nodes : nodes[i].CID = i - 1

EntryReturned == pc = "edone"

\* the places (level, position) that hold the node of CID c
PlacesOf(c) ==
    UNION {{<<k, j>> : j \in {i \in DOMAIN levels[k].Nodes : levels[k].Nodes[i].CID = c}} :
              k \in DOMAIN levels}

\* C36: in the levels returned by Levels() of the entry-node variant no node
\* is in more than one level nor twice in one level, whatever nodes were
\* marked as entry nodes (stated for nodes whose CID is their index, so that
\* a place names its node).
C36_EntryNoDuplicates ==
    (EntryReturned /\ CIDsAreIndexes) =>
        \A n \in Added : Cardinality(PlacesOf(n)) <= 1

\* ---- entry-node variant: Node.CID and the solved flags ----

\* the nodes without parents, and no others, were marked, each once, and
\* as many nodes were added as the size given to New
ProperMarks ==
    /\ nbNodes = MaxNodes
    /\ Len(entryNodes) = Cardinality(Range(entryNodes))
    /\ Range(entryNodes) = {n \in Added : parents[n] = <<>>}

\* the index of the node a level entry is a copy of (the weights given to
\* AddNode tell the nodes apart)
IndexOf(node) == node.Weight - 1

\* the levels (from 0) that hold node n
LevelsOf(n) ==
    {k - 1 : k \in {i \in DOMAIN levels :
                      \E j \in DOMAIN levels[i].Nodes : IndexOf(levels[i].Nodes[j]) = n}}

\* every parent of a node of a level is in an earlier level
ParentsEarlier ==
    \A n \in Added : \A k \in LevelsOf(n) : \A j \in DOMAIN parents[n] :
        \E q \in LevelsOf(parents[n][j]) : q < k

\* C37: whatever the values of Node.CID, Levels() of the entry-node variant
\* puts every parent in an earlier level than its child, ends its round loop
\* (within nbNodes rounds), passes its sanity check and returns levels that
\* hold every node (stated for properly marked entry nodes).
C37_CIDIndependent ==
    (EntryLevelled /\ ProperMarks) =>
        /\ ParentsEarlier
        /\ level <= nbNodes
        /\ pc # "epanic"
        /\ EntryReturned => \A n \in Added : LevelsOf(n) # {}

\* ---- entry-node variant: TotalWeight ----

\* the sum of Weight over the first j nodes of a level
RECURSIVE WeightUpTo(_, _)
WeightUpTo(lvl, j) == IF j = 0 THEN 0 ELSE WeightUpTo(lvl, j - 1) + lvl[j].Weight

WeightIsSum(lv) == lv.TotalWeight = WeightUpTo(lv.Nodes, Len(lv.Nodes))

\* C38: for every level returned by Levels() of the entry-node variant,
\* level 0 included, TotalWeight is the sum of Weight over its nodes.
C38_LevelWeight ==
    EntryReturned => \A k \in DOMAIN levels : WeightIsSum(levels[k])

\* ---- Levels() called again ----

\* a call of Levels() after an earlier one has returned
CalledAgain == LevelsReturned /\ returned # <<>>

\* C39: no step of Levels() changes parents, children, nodes or the number of
\* nodes, and a second call on the same DAG returns the levels the first
\* one returned.
C39_Repeatable ==
    /\ [][LevelsCalled => UNCHANGED <<parents, children, nodes, nbNodes>>]_vars
    /\ [](CalledAgain => levels = returned)

\* two workers levelled a graph of three levels twice
C39_Witness ==
    /\ CalledAgain
    /\ numCPU = 2
    /\ Len(levels) = 3
    /\ levels = returned


\* ---- C40

\* buildPermutation has returned
PermutationBuilt == spr # <<>> /\ pk.Permutation # <<>>

\* the positions of pk.Permutation and of lro
Positions == 0 .. (3 * pk.Cardinality - 1)

\* the wire a position holds
HeldAt(i) == LROAt(spr, pk.Cardinality, i)

\* the positions holding the wire of position i
SameWire(i) == {j \in Positions : HeldAt(j) = HeldAt(i)}

\* the positions the permutation reaches from j, S being those reached so far
RECURSIVE OrbitFrom(_, _)
OrbitFrom(S, j) ==
    IF pk.Permutation[j] \in S THEN S
    ELSE OrbitFrom(S \cup {pk.Permutation[j]}, pk.Permutation[j])

\* the cycle of the permutation through position i
CycleOf(i) == OrbitFrom({pk.Permutation[i]}, pk.Permutation[i])

\* C40: for a system of at least one variable, once buildPermutation has
\* returned, no entry of pk.Permutation is -1, pk.Permutation is a bijection on
\* [0, 3*size), a position and its image hold the same wire, and the positions
\* holding the same wire, placeholders and padding included, are one cycle.
C40_WirePreservingPermutation ==
    PermutationBuilt =>
        /\ DOMAIN pk.Permutation = Positions
        /\ \A i \in Positions : pk.Permutation[i] # -1
        /\ \A i \in Positions : pk.Permutation[i] \in Positions
        /\ \A i, j \in Positions : pk.Permutation[i] = pk.Permutation[j] => i = j
        /\ \A i \in Positions : HeldAt(pk.Permutation[i]) = HeldAt(i)
        /\ \A i \in Positions : CycleOf(i) = SameWire(i)

\* a built permutation of a system with a placeholder for a public wire other
\* than wire 0, padding, a wire held by at least three positions and a wire
\* held by exactly two, one of them sent to a different position
C40_Witness ==
    /\ PermutationBuilt
    /\ spr.NbPublicVariables = 2
    /\ pk.Cardinality > SizeSystem(spr)
    /\ Len(spr.Constraints) = 1
    /\ Cardinality(SameWire(0)) >= 3
    /\ Cardinality(SameWire(1)) = 2
    /\ pk.Permutation[1] # 1

====
